---- MODULE Spec2Model ----
(***************************************************************************)
(* Model of the Mswipe donation flow of CMV-Backend: the payment           *)
(* controller (initiatePayment, handleCallback, verifyTransaction), the    *)
(* MswipeService it calls and the Donation collection it reads and writes. *)
(*                                                                         *)
(* A request handler is cut at its awaits on the database and on the       *)
(* processor: between two awaits the handler runs without interruption     *)
(* (one JavaScript thread), at an await any other request may run.         *)
(* Timestamps (createdAt, updatedAt) and the donor's address fields are    *)
(* not part of the state.                                                  *)
(***************************************************************************)
EXTENDS Integers, Sequences, FiniteSets, Bags, TLC

(* ------------------------------ bounds -------------------------------- *)

\* Donations the store can hold.
MaxDonations == 1
\* Largest amount (rupees) a request or a callback names.
MaxAmount == 1

\* Requests that can be in flight at the same time.
MaxInFlight == 2

\* An absent property of a JavaScript object (undefined / null).
undefined == "undefined"
\* No order id (ME_InvNo absent), no document.
NoId == 0

\* Identifiers the two generators can produce; a value can repeat.
DonationRefs == 1..MaxDonations
OrderIds == 1..MaxDonations

(* ------------------------- values and inputs -------------------------- *)

\* A JavaScript value that is a number, NaN or null.
Num(n) == [kind |-> "number", v |-> n]
NaN == [kind |-> "NaN", v |-> 0]
null == [kind |-> "null", v |-> 0]
\* JavaScript truthiness of such a value: null, NaN and 0 are falsy.
Truthy(x) == x.kind = "number" /\ x.v # 0

\* TranAmount as the processor posts it: a string, or absent.
TranAmounts == {undefined, "0", "1.00", "2", "abc"}

\* parseFloat on the strings of TranAmounts.
parseFloat(s) ==
  CASE s = "0" -> Num(0)
    [] s = "1" -> Num(1)
    [] s = "2" -> Num(2)
    [] s = "1.00" -> Num(1)
    [] OTHER -> NaN

\* TRAN_STATUS as the processor posts it, or absent.
TranStatuses == {undefined, "Approved", "pending", "declined"}

toLowerCase(s) ==
  CASE s = "Approved" -> "approved"
    [] OTHER -> s

\* The RRN of a payload: the processor sends one only with its IPG_ID.
RRNs(IPG_ID) == IF IPG_ID = undefined THEN {undefined} ELSE {undefined, "RRN"}

\* A BackPosting payload: order id, IPG_ID, TRAN_STATUS, TranAmount, RRN.
Payload(ME_InvNo, IPG_ID, TRAN_STATUS, TranAmount, RRN) ==
  [ME_InvNo |-> ME_InvNo, IPG_ID |-> IPG_ID, TRAN_STATUS |-> TRAN_STATUS,
   TranAmount |-> TranAmount, RRN |-> RRN]

\* req.body of an initiate request. amount is a number or absent (present
\* FALSE); rest stands for state, city, pinCode, address, seek80G and
\* reasonForDonation, which only the schema looks at.
InitiateRequests ==
  [fullName : {" ", "Asha"},
   email : {"asha", "asha@example.org"},
   phoneNumber : {"98765", "9876543210"},
   amount : {[present |-> FALSE, v |-> 0]}
              \cup {[present |-> TRUE, v |-> n] : n \in -1..MaxAmount},
   rest : {"valid", "invalid"}]

\* Payment_Status codes of getPBLTransactionDetails.
PaymentStatusCodes == {0, 1, 2, 3}

VARIABLES
  db,               \* the Donation collection: a sequence, _id = index
  reqs,             \* the requests in flight: a bag of handler states
  resp,             \* the response being sent, if any
  env,              \* process environment: Mswipe configured, result URL set
  cachedToken,      \* MswipeService.cachedToken
  tokenExpiry,      \* MswipeService.tokenExpiry
  now,              \* the clock, in hours
  emails,           \* per donation: calls of sendDonationEmail
  createOrderCalls, \* per donation: calls of mswipeService.createOrder
  tokenRequests,    \* posts to CreatePBLAuthToken so far
  emailOutcome,     \* how the email call of the request being answered ended
  isProduction,     \* NODE_ENV === 'production' when the routes were loaded
  totalHits,        \* per limiter and caller: requests counted in its window
  attempts,         \* the TriviaAttempt collection, by phone number
  quizzes           \* the trivia requests in flight: a bag of handler states

vars == <<db, reqs, resp, env, cachedToken, tokenExpiry, now, emails,
          createOrderCalls, tokenRequests, emailOutcome, isProduction, totalHits,
          attempts, quizzes>>

(* --------------------------- the documents ---------------------------- *)

\* mswipePaymentResponse is kept as the entries it holds: the link-creation
\* response, the callback entry, the statusCheck entry. What an entry holds
\* is never read back by the program.
NoPaymentResponse == [link |-> FALSE, callback |-> FALSE, statusCheck |-> FALSE]

\* A donation inserted as already paid.
InitialPaymentStatus_paid == "SUCCESS"

\* The status every new Mswipe donation carries.
InitialPaymentStatus == "PENDING"

\* The document initiatePayment builds (donationData) for a request.
donationData(req, donationRef, mswipeOrderId) ==
  [donationRef |-> donationRef,
   mswipeOrderId |-> mswipeOrderId,
   amount |-> req.amount.v,
   paymentStatus |-> InitialPaymentStatus,
   status |-> "pending",
   mswipeTransactionRef |-> undefined,
   mswipeIpgId |-> undefined,
   mswipeTransId |-> undefined,
   mswipePaymentResponse |-> NoPaymentResponse]

\* No document in hand.
NoDoc ==
  [donationRef |-> NoId, mswipeOrderId |-> NoId, amount |-> 0,
   paymentStatus |-> undefined, status |-> undefined,
   mswipeTransactionRef |-> undefined, mswipeIpgId |-> undefined,
   mswipeTransId |-> undefined, mswipePaymentResponse |-> NoPaymentResponse]

\* No response is being sent.
NoResp ==
  [code |-> 0, type |-> undefined, status |-> undefined, ref |-> NoId,
   amount |-> 0, transactionRef |-> undefined, ipgId |-> undefined,
   mswipeStatus |-> undefined, errors |-> {}, rows |-> {}, id |-> NoId,
   by |-> undefined]

\* A mongoose document in memory: the values and the modified paths.
\* Assigning a path the value it already has does not mark it modified.
Assign(m, path, value) ==
  IF m.doc[path] = value
    THEN m
    ELSE [doc |-> [m.doc EXCEPT ![path] = value], mod |-> m.mod \cup {path}]

\* Assigning a new object to a Mixed path always marks it modified.
AssignObject(m, path, value) ==
  [doc |-> [m.doc EXCEPT ![path] = value], mod |-> m.mod \cup {path}]

\* save() of a loaded document: an update that sets the modified paths only.
SavedOver(stored, doc, mod) ==
  [path \in DOMAIN stored |-> IF path \in mod THEN doc[path] ELSE stored[path]]

\* A lookup that ignores the order id and returns the first donation stored.
findOneByOrderId_first(orderId) == IF Len(db) = 0 THEN NoId ELSE 1

\* findOne({ mswipeOrderId }): the first stored donation with that order id.
findOneByOrderId(orderId) ==
  LET hits == {i \in 1..Len(db) : db[i].mswipeOrderId = orderId}
  IN IF hits = {} THEN NoId ELSE CHOOSE i \in hits : \A j \in hits : i <= j

\* findOne({ donationRef }).
findOneByRef(donationRef) ==
  LET hits == {i \in 1..Len(db) : db[i].donationRef = donationRef}
  IN IF hits = {} THEN NoId ELSE CHOOSE i \in hits : \A j \in hits : i <= j

(* ------------------------------ Init ---------------------------------- *)

\* Where identifier collisions are examined the store holds one donation
\* more, so that a second record can appear beside the first.
IdCapacity == MaxDonations + 1

\* The _id values a stored donation can have.
Slots == 1..IdCapacity

\* The callers the limiters tell apart (req.ip).
MaxIPs == 2
IPs == 1..MaxIPs

\* The requests the callers together send within the limiters' windows.
MaxHits == 6

\* The phone numbers of the trivia requests, cleaned.
MaxPhones == 2
Phones == 1..MaxPhones

\* A date or a score that is not set (null, or no value).
Unset == -1

\* A TriviaAttempt as the schema's defaults leave it, and not yet stored.
NoAttempt ==
  [registered |-> FALSE, name |-> undefined, isVerified |-> FALSE,
   verifiedAt |-> Unset, hasAttempted |-> FALSE, score |-> Unset,
   answers |-> << >>, attemptedAt |-> Unset]

\* The TriviaAttempt collection, empty.
NoAttempts == [p \in Phones |-> NoAttempt]

\* The store of each limiter when its window begins.
NoHits == [limiter \in {"paymentLimiter", "statusLimiter"} |-> [ip \in IPs |-> 0]]

\* The handlers never read NODE_ENV or a limiter's store: where the limiters
\* are left out, the deployment is taken as production with empty stores.
Init ==
  /\ db = << >>
  /\ reqs = EmptyBag
  /\ resp = NoResp
  /\ env \in [configured : BOOLEAN, frontendUrl : BOOLEAN]
  /\ cachedToken = undefined
  /\ tokenExpiry = 0
  /\ now = 0
  /\ emails = [i \in Slots |-> 0]
  /\ createOrderCalls = [i \in Slots |-> 0]
  /\ tokenRequests = 0
  /\ emailOutcome = "none"
  /\ isProduction = TRUE
  /\ totalHits = NoHits
  /\ attempts = NoAttempts
  /\ quizzes = EmptyBag

(* ------------------------- requests in flight ------------------------- *)

\* The handlers in flight.
Handlers == BagToSet(reqs)

\* A response is on its way out: nothing else runs until its connection
\* closes (a response reaches nobody's state, so this loses no behaviour).
Answering == resp # NoResp

\* A request can arrive.
Arrives == ~Answering /\ BagCardinality(reqs) < MaxInFlight

\* The await of handler h, which is at pc, completes.
At(h, pc) == ~Answering /\ h \in Handlers /\ h.pc = pc

\* The paths of its document a handler at pc can still read: what it will
\* save (the modified paths), what its response and its email decision read,
\* and, where it has yet to decide what to assign, every path.
LivePaths(pc, m) ==
  CASE pc \in {"createOrder", "link"} -> DOMAIN NoDoc
    [] pc = "checkStatus" /\ m.doc.paymentStatus = "PENDING" -> DOMAIN NoDoc
    [] pc \in {"savedCallback", "savedStatus"} ->
         {"donationRef", "amount", "paymentStatus"}
    [] OTHER -> m.mod \cup {"donationRef", "amount", "paymentStatus"}

\* The state of a handler at pc holding document m of donation id: the paths
\* it never reads again are left out. differs notes, for a callback on its
\* way to its save, that its payload named another amount than the stored.
Handler(pc, id, m) ==
  [pc |-> pc, id |-> id, differs |-> FALSE,
   doc |-> [path \in DOMAIN NoDoc |->
             IF path \in LivePaths(pc, m) THEN m.doc[path] ELSE NoDoc[path]],
   mod |-> m.mod \cap LivePaths(pc, m)]

\* The document handler h holds.
Mem(h) == [doc |-> h.doc, mod |-> h.mod]

\* A new request reaches its first await as handler state g.
Begin(g) == reqs' = reqs (+) SetToBag({g}) /\ UNCHANGED <<resp, emailOutcome>>

\* Handler h reaches its next await as handler state g.
Await(h, g) ==
  /\ reqs' = (reqs (-) SetToBag({h})) (+) SetToBag({g})
  /\ UNCHANGED <<resp, emailOutcome>>

\* A request is answered with r before its first await.
Answer(r) == resp' = r /\ UNCHANGED <<reqs, emailOutcome>>

\* A request is turned away with r before it reads any donation. It touches
\* nothing and nothing touches it, so it is taken only between the other
\* requests.
TurnAway(r) == reqs = EmptyBag /\ Answer(r)

\* Handler h sends its response r and ends; outcome is how its call of
\* sendDonationEmail ended ("none": it made no call).
RespondAfterEmail(h, r, outcome) ==
  resp' = r /\ reqs' = reqs (-) SetToBag({h}) /\ emailOutcome' = outcome

\* Handler h sends its response r and ends, having sent no email.
Respond(h, r) == RespondAfterEmail(h, r, "none")

\* A response: HTTP code, JSON or redirect, the status, reference and amount
\* it carries (amount 0: it carries none), the donation it is about (id) and
\* the operation that sent it. transactionRef, ipgId and mswipeStatus are
\* set by the responses that carry them, errors by the 400 of initiatePayment,
\* rows (the donations exported) by the CSV export.
Json(by, code, status, id, ref) ==
  [NoResp EXCEPT !.code = code, !.type = "json", !.status = status, !.ref = ref,
                 !.id = id, !.by = by]
Redirect(by, status, id, ref, amount) ==
  [NoResp EXCEPT !.code = 302, !.type = "redirect", !.status = status,
                 !.ref = ref, !.amount = amount, !.id = id, !.by = by]

(* --------------------------- initiatePayment -------------------------- *)

\* String.trim on the names of InitiateRequests.
trim(s) == IF s = " " THEN "" ELSE s
\* validator.isEmail on the addresses of InitiateRequests.
isEmail(s) == s = "asha@example.org"
\* /^[0-9]{10}$/.test on the phone numbers of InitiateRequests.
isTenDigits(s) == s = "9876543210"

\* An initiatePayment that does not look at the phone number.
ValidationErrors_anyPhone(req) ==
  (IF req.fullName = undefined \/ trim(req.fullName) = ""
     THEN {"fullName is required"} ELSE {})
  \cup (IF req.email = undefined \/ ~isEmail(req.email)
     THEN {"Valid email is required"} ELSE {})
  \cup (IF ~req.amount.present \/ req.amount.v = 0 \/ req.amount.v <= 0
     THEN {"Amount must be greater than 0"} ELSE {})

\* The violations initiatePayment collects (its errors array, as a set).
ValidationErrors(req) ==
  (IF req.fullName = undefined \/ trim(req.fullName) = ""
     THEN {"fullName is required"} ELSE {})
  \cup (IF req.email = undefined \/ ~isEmail(req.email)
     THEN {"Valid email is required"} ELSE {})
  \cup (IF req.phoneNumber = undefined \/ ~isTenDigits(req.phoneNumber)
     THEN {"Valid 10-digit phone number is required"} ELSE {})
  \cup (IF ~req.amount.present \/ req.amount.v = 0 \/ req.amount.v <= 0
     THEN {"Amount must be greater than 0"} ELSE {})

\* amount: { min: 1 } of the schema.
SchemaAmountMin == 1
\* The schema's validation of a new document: the required fields and enums
\* the controller did not look at, and the least amount.
SchemaValid(req) == req.rest = "valid" /\ req.amount.v >= SchemaAmountMin

\* The HTTP code initiatePayment rejects req with before it inserts
\* anything: 503 not configured, 400 violations, 500 the save throws a
\* validation error; 0 if it does not.
InitiateRejection(req) ==
  IF ~env.configured THEN 503
  ELSE IF ValidationErrors(req) # {} THEN 400
  ELSE IF ~SchemaValid(req) THEN 500
  ELSE 0

\* A collection without the unique index on donationRef.
DuplicateKey_unchecked(d) == FALSE

\* The insert of document d: the unique index on donationRef refuses a
\* reference a stored donation has.
DuplicateKey(d) == findOneByRef(d.donationRef) # NoId

\* The code of the catch of initiatePayment for a duplicate key.
DuplicateCode == 409

\* The first save of a request that passed the checks, with generated
\* identifiers donationRef and orderId: the insert of the PENDING record, or
\* the catch of its duplicate key (capacity: the donations the store can
\* hold).
InitiateInsert(req, donationRef, orderId, capacity) ==
  LET d == donationData(req, donationRef, orderId)
  IN IF DuplicateKey(d)
       THEN TurnAway(Json("initiate", DuplicateCode, "Duplicate order detected",
                          NoId, NoId))
            /\ UNCHANGED db
       ELSE /\ Len(db) < capacity
            /\ db' = Append(db, d)
            /\ Begin(Handler("createOrder", Len(db) + 1, [doc |-> d, mod |-> {}]))

\* The answer to a request the checks refuse: the 400 carries the list of
\* violations.
InitiateReject(req) ==
  LET code == InitiateRejection(req)
  IN /\ TurnAway([Json("initiate", code, "rejected", NoId, NoId)
                    EXCEPT !.errors = IF code = 400 THEN ValidationErrors(req)
                                                    ELSE {}])
     /\ UNCHANGED db

\* initiatePayment of body req up to its first save: the checks, then the
\* insert.
InitiateOf(req, donationRef, orderId, capacity) ==
  IF InitiateRejection(req) # 0
    THEN InitiateReject(req)
    ELSE InitiateInsert(req, donationRef, orderId, capacity)

\* Up to the first save, for some request body.
InitiateWith(donationRef, orderId, capacity) ==
  \E req \in InitiateRequests : InitiateOf(req, donationRef, orderId, capacity)

\* initiatePayment up to its first save.
InitiateStart ==
  /\ Arrives
  /\ UNCHANGED <<cachedToken, tokenExpiry, now, emails, createOrderCalls, tokenRequests, env>>
  /\ \E donationRef \in DonationRefs, orderId \in OrderIds :
       InitiateWith(donationRef, orderId, MaxDonations)

\* bufferTime of generateToken: one hour.
bufferTime == 1
\* The default life of a token whose expiry cannot be parsed: 25 days.
DefaultTokenHours == 600

\* What the token endpoint can answer: a failure, or a token whose payload
\* cannot be decoded or carries exp (in hours).
TokenResponses ==
  {[ok |-> FALSE, exp |-> 0, form |-> "none"]}
  \cup {[ok |-> TRUE, exp |-> 0, form |-> f] : f \in {"undecodable"}}
  \cup {[ok |-> TRUE, exp |-> e, form |-> "exp"] : e \in {2}}

\* A generateToken without its safety margin.
CacheFresh_noBuffer(t) ==
  cachedToken # undefined /\ tokenExpiry # 0 /\ tokenExpiry > t

\* generateToken reads the cache: a token is there and expires later than
\* bufferTime from now.
CacheFresh(t) ==
  cachedToken # undefined /\ tokenExpiry # 0 /\ tokenExpiry > t + bufferTime

\* tokenExpiry after a successful token response r at time t. NaN (a payload
\* without exp) is stored as 0: like null it is falsy and compares false.
ExpiryOf(r, t) ==
  CASE r.form = "exp" -> r.exp
    [] r.form = "noexp" -> 0
    [] OTHER -> t + DefaultTokenHours

\* A link failure that leaves the donation as it was inserted.
LinkFailureStatus_kept == "PENDING"

\* The status initiatePayment stores when createOrder fails.
LinkFailureStatus == "FAILED"

\* The document after createOrder failed.
MarkFailed(m) ==
  Assign(Assign(m, "paymentStatus", LinkFailureStatus), "status", "failed")

\* generateToken for the createOrder of handler h, r being what the token
\* endpoint answers if it is asked: a fresh cached token is returned as it
\* is; otherwise the endpoint is asked, and its token is cached with its
\* expiry and returned, or its failure is returned.
generateToken(h, r) ==
  IF CacheFresh(now)
    THEN /\ UNCHANGED <<cachedToken, tokenExpiry, tokenRequests>>
         /\ Await(h, Handler("link", h.id, Mem(h)))
    ELSE /\ tokenRequests' = tokenRequests + 1
         /\ IF r.ok
              THEN /\ cachedToken' = "token"
                   /\ tokenExpiry' = ExpiryOf(r, now)
                   /\ Await(h, Handler("link", h.id, Mem(h)))
              ELSE /\ UNCHANGED <<cachedToken, tokenExpiry>>
                   /\ Await(h, Handler("saveFailed", h.id, MarkFailed(Mem(h))))

\* createOrder is called; it asks generateToken for a token, the endpoint
\* answering from responses. (Its own check of name, email, mobile, amount
\* and orderId cannot fail after initiatePayment's.)
InitiateTokenFrom(h, responses) ==
  /\ At(h, "createOrder")
  /\ createOrderCalls' = [createOrderCalls EXCEPT ![h.id] = @ + 1]
  /\ UNCHANGED <<db, env, emails, now>>
  /\ \E r \in responses : generateToken(h, r)

\* createOrder is called.
InitiateToken(h) == InitiateTokenFrom(h, TokenResponses)

\* What the payment-link endpoint can answer.
LinkResponses == {"error", "statusFalse", "noSmslink", "link", "linkNoTransId"}

\* The document after createOrder succeeded with response r.
MarkLinked(m, r) ==
  Assign(Assign(AssignObject(m,
    "mswipePaymentResponse", [link |-> TRUE, callback |-> FALSE, statusCheck |-> FALSE]),
    "mswipeIpgId", "TXN"),
    "mswipeTransId", IF r = "link" THEN "TransID" ELSE undefined)

\* A createOrder that takes a true status for success, smslink or not.
LinkOk_anyTrueStatus(r) == r \notin {"error", "statusFalse"}

\* A createOrder that fails when the smslink carries no TransID.
LinkOk_needsTransId(r) == r = "link"

\* createOrder returns success for answer r of the payment-link endpoint:
\* the status is true and an smslink is there, with a TransID or without.
LinkOk(r) == r \in {"link", "linkNoTransId"}

\* The payment-link endpoint answers r to the createOrder of handler h.
InitiateLinkWith(h, r) ==
  IF LinkOk(r)
    THEN Await(h, Handler("saveLinked", h.id, MarkLinked(Mem(h), r)))
    ELSE Await(h, Handler("saveFailed", h.id, MarkFailed(Mem(h))))

\* createOrder posts to MswipePayment and returns.
InitiateLink(h) ==
  /\ At(h, "link")
  /\ \E r \in LinkResponses : InitiateLinkWith(h, r)
  /\ UNCHANGED <<db, env, cachedToken, tokenExpiry, now, emails, createOrderCalls, tokenRequests>>

\* The save after createOrder failed, answered with the reference.
InitiateSaveFailed(h) ==
  /\ At(h, "saveFailed")
  /\ db' = [db EXCEPT ![h.id] = SavedOver(@, h.doc, h.mod)]
  /\ Respond(h, Json("initiate", 500, "Failed to initiate payment", h.id,
                     h.doc.donationRef))
  /\ UNCHANGED <<env, cachedToken, tokenExpiry, now, emails, createOrderCalls, tokenRequests>>

\* The save after createOrder succeeded, answered with the payment URL.
InitiateSaveLinked(h) ==
  /\ At(h, "saveLinked")
  /\ db' = [db EXCEPT ![h.id] = SavedOver(@, h.doc, h.mod)]
  /\ Respond(h, Json("initiate", 200, "paymentUrl", h.id, h.doc.donationRef))
  /\ UNCHANGED <<env, cachedToken, tokenExpiry, now, emails, createOrderCalls, tokenRequests>>

(* ---------------------------- handleCallback -------------------------- *)

\* MswipeService.verifyCallback: the fields handleCallback reads.
verifyCallback(cb) ==
  IF cb.ME_InvNo = NoId /\ cb.IPG_ID = undefined
    THEN [valid |-> FALSE, orderId |-> NoId, ipgId |-> undefined,
          status |-> undefined, transactionRef |-> undefined, amount |-> null]
    ELSE [valid |-> TRUE,
          orderId |-> cb.ME_InvNo,
          ipgId |-> cb.IPG_ID,
          status |->
            IF cb.TRAN_STATUS # undefined /\ toLowerCase(cb.TRAN_STATUS) = "approved"
              THEN "SUCCESS"
            ELSE IF cb.TRAN_STATUS # undefined /\ toLowerCase(cb.TRAN_STATUS) = "pending"
              THEN "PENDING"
            ELSE "FAILED",
          transactionRef |-> IF cb.RRN # undefined THEN cb.RRN ELSE cb.IPG_ID,
          amount |-> IF cb.TranAmount # undefined THEN parseFloat(cb.TranAmount) ELSE null]

\* handleCallback without its replay guard.
AlreadyProcessed_never(donation) == FALSE

\* The replay guard: the donation found is not PENDING.
AlreadyProcessed(donation) == donation.paymentStatus # "PENDING"

\* The payload names an amount and it is not the stored one.
DeclaresOtherAmount(cb, donation) ==
  /\ cb.TranAmount # undefined
  /\ parseFloat(cb.TranAmount).kind = "number"
  /\ parseFloat(cb.TranAmount).v # donation.amount

\* The amount check of handleCallback.
AmountMismatch(verification, donation) ==
  /\ Truthy(verification.amount)
  /\ verification.amount.v # donation.amount

\* The legacy status that goes with a payment status in a transition.
LegacyStatus(paymentStatus) ==
  IF paymentStatus = "SUCCESS" THEN "completed" ELSE "failed"

\* The document after the amount check failed.
MarkMismatch(m) ==
  Assign(Assign(m, "paymentStatus", "FAILED"), "status", "failed")

\* A handleCallback that also takes the amount the payload declares.
ApplyCallback_amount(m, verification) ==
  AssignObject(Assign(Assign(Assign(Assign(Assign(m,
    "amount", IF verification.amount.kind = "number"
                THEN verification.amount.v ELSE m.doc.amount),
    "paymentStatus", verification.status),
    "status", LegacyStatus(verification.status)),
    "mswipeTransactionRef", verification.transactionRef),
    "mswipeIpgId", verification.ipgId),
    "mswipePaymentResponse",
      [m.doc.mswipePaymentResponse EXCEPT !.callback = TRUE])

\* The document after handleCallback applied the verified payload.
ApplyCallback(m, verification) ==
  AssignObject(Assign(Assign(Assign(Assign(m,
    "paymentStatus", verification.status),
    "status", LegacyStatus(verification.status)),
    "mswipeTransactionRef", verification.transactionRef),
    "mswipeIpgId", verification.ipgId),
    "mswipePaymentResponse",
      [m.doc.mswipePaymentResponse EXCEPT !.callback = TRUE])

\* String.toLowerCase on a payment status.
LowerStatus(paymentStatus) ==
  CASE paymentStatus = "SUCCESS" -> "success"
    [] paymentStatus = "FAILED" -> "failed"
    [] paymentStatus = "PENDING" -> "pending"
    [] OTHER -> paymentStatus

\* The answer to a callback for donation id, which is not PENDING.
ReplayResponse(id, donation) ==
  IF env.frontendUrl
    THEN Redirect("replay", LowerStatus(donation.paymentStatus), id,
                  donation.donationRef, 0)
    ELSE Json("replay", 200, donation.paymentStatus, id, donation.donationRef)

\* The answer to a callback that was applied to donation id.
CallbackResponse(id, donation) ==
  IF env.frontendUrl
    THEN Redirect("callback", LowerStatus(donation.paymentStatus), id,
                  donation.donationRef, donation.amount)
    ELSE Json("callback", 200, donation.paymentStatus, id, donation.donationRef)

\* Up to the save: verification, lookup, replay guard, amount check and the
\* changes made to the document in memory. The payload's status, amount and
\* RRN are drawn where they are first read: validity and the order id do
\* not depend on them. A payload without ME_InvNo but with IPG_ID is valid,
\* and the lookup by its absent order id finds none of these donations
\* (each has an mswipeOrderId).
CallbackWith(ME_InvNo, IPG_ID) ==
  LET head == verifyCallback(Payload(ME_InvNo, IPG_ID, undefined, undefined,
                                     undefined))
      id == findOneByOrderId(head.orderId)
  IN IF ~head.valid
       THEN TurnAway(Json("callback", 400, "Invalid callback data", NoId, NoId))
     ELSE IF id = NoId
       THEN TurnAway(Json("callback", 404, "Donation not found", NoId, NoId))
     ELSE IF AlreadyProcessed(db[id])
       THEN Answer(ReplayResponse(id, db[id]))
     ELSE \E TRAN_STATUS \in TranStatuses, TranAmount \in TranAmounts,
             RRN \in RRNs(IPG_ID) :
            LET cb == Payload(ME_InvNo, IPG_ID, TRAN_STATUS, TranAmount, RRN)
                verification == verifyCallback(cb)
                g == IF AmountMismatch(verification, db[id])
                       THEN Handler("saveMismatch", id,
                                    MarkMismatch([doc |-> db[id], mod |-> {}]))
                       ELSE Handler("saveCallback", id,
                                    ApplyCallback([doc |-> db[id], mod |-> {}],
                                                  verification))
            IN Begin([g EXCEPT !.differs = DeclaresOtherAmount(cb, db[id])])

\* An order id the processor can post that no initiatePayment generated.
UnknownOrderId == MaxDonations + IdCapacity

\* handleCallback up to its save.
CallbackStart ==
  /\ Arrives
  /\ UNCHANGED <<db, env, cachedToken, tokenExpiry, now, emails, createOrderCalls, tokenRequests>>
  /\ \E ME_InvNo \in {NoId, UnknownOrderId} \cup OrderIds,
        IPG_ID \in {undefined, "IPG"} :
       CallbackWith(ME_InvNo, IPG_ID)

\* The save after an amount mismatch, answered with 400.
CallbackSaveMismatch(h) ==
  /\ At(h, "saveMismatch")
  /\ db' = [db EXCEPT ![h.id] = SavedOver(@, h.doc, h.mod)]
  /\ Respond(h, Json("mismatch", 400, "Amount verification failed", h.id, NoId))
  /\ UNCHANGED <<env, cachedToken, tokenExpiry, now, emails, createOrderCalls, tokenRequests>>

\* The save of an applied callback.
CallbackSave(h) ==
  /\ At(h, "saveCallback")
  /\ db' = [db EXCEPT ![h.id] = SavedOver(@, h.doc, h.mod)]
  /\ Await(h, Handler("savedCallback", h.id, Mem(h)))
  /\ UNCHANGED <<env, cachedToken, tokenExpiry, now, emails, createOrderCalls, tokenRequests>>

\* sendDonationEmail is called for the donation handler h holds, if h's
\* document says SUCCESS.
SendIfSuccess(h) ==
  emails' = [emails EXCEPT ![h.id] =
               IF h.doc.paymentStatus = "SUCCESS" THEN @ + 1 ELSE @]

\* How the call of sendDonationEmail can end for handler h.
EmailOutcomes(h) ==
  IF h.doc.paymentStatus = "SUCCESS" THEN {"sent", "threw"} ELSE {"none"}

\* A handler that lets the email's exception reach its outer catch.
AfterEmail_rethrown(outcome, r) ==
  IF outcome = "threw"
    THEN [NoResp EXCEPT !.code = 500, !.type = "json",
                        !.status = "Internal server error", !.by = r.by]
    ELSE r

\* The response of a handler that was about to send r when its email call
\* ended with outcome: the catch around the call only logs.
AfterEmail(outcome, r) == r

\* After the save: the email and the response.
CallbackFinish(h) ==
  /\ At(h, "savedCallback")
  /\ SendIfSuccess(h)
  /\ \E outcome \in EmailOutcomes(h) :
       RespondAfterEmail(h, AfterEmail(outcome, CallbackResponse(h.id, h.doc)),
                         outcome)
  /\ UNCHANGED <<db, env, cachedToken, tokenExpiry, now, createOrderCalls, tokenRequests>>

(* --------------------------- verifyTransaction ------------------------ *)

\* A verifyTransaction that asks the processor whatever the document holds.
Unverifiable_never(donation) == FALSE

\* No TransID was stored for the donation at initiation.
Unverifiable(donation) == donation.mswipeTransId = undefined

\* verifyTransaction of donationRef up to the status call: lookup and the
\* transId check.
VerifyWith(donationRef) ==
  LET id == findOneByRef(donationRef)
  IN IF id = NoId
       THEN TurnAway(Json("verify", 404, "Donation not found", NoId, NoId))
     ELSE IF Unverifiable(db[id])
       THEN Answer(Json("verify", 400, db[id].paymentStatus, id, NoId))
     ELSE Begin(Handler("checkStatus", id, [doc |-> db[id], mod |-> {}]))

\* verifyTransaction up to the status call.
VerifyStart ==
  /\ Arrives
  /\ \E donationRef \in DonationRefs : VerifyWith(donationRef)
  /\ UNCHANGED <<db, env, cachedToken, tokenExpiry, now, emails, createOrderCalls, tokenRequests>>

\* What the post to getPBLTransactionDetails can come to: the request throws,
\* the answer's Status is not true, its Data is empty, or Data[0] is the
\* transaction.
StatusAnswers ==
  {[kind |-> k, Payment_Status |-> 0, Payment_Id |-> undefined,
    IPG_ID |-> undefined] : k \in {"threw", "statusFalse", "noData"}}
  \cup {a \in [kind : {"data"}, Payment_Status : PaymentStatusCodes,
                  Payment_Id : {undefined, "RRN"}, IPG_ID : {undefined, "IPG"}] :
          a.Payment_Id \in RRNs(a.IPG_ID)}

\* A checkTransactionStatus that takes an empty Data for a transaction.
checkTransactionStatus_emptyData(a) ==
  [success |-> a.kind \in {"data", "noData"}, Payment_Status |-> a.Payment_Status,
   Payment_Id |-> a.Payment_Id, IPG_ID |-> a.IPG_ID]

\* What checkTransactionStatus returns for answer a: success with the
\* transaction, or a failure.
checkTransactionStatus(a) ==
  IF a.kind = "data"
    THEN [success |-> TRUE, Payment_Status |-> a.Payment_Status,
          Payment_Id |-> a.Payment_Id, IPG_ID |-> a.IPG_ID]
    ELSE [success |-> FALSE, Payment_Status |-> 0, Payment_Id |-> undefined,
          IPG_ID |-> undefined]

\* What checkTransactionStatus can return.
StatusResponses == {checkTransactionStatus(a) : a \in StatusAnswers}

\* A checkTransactionStatus that takes every code but 0 and 1 for pending.
PaymentStatusOf_zeroFails(code) ==
  IF code = 1 THEN "SUCCESS" ELSE IF code = 0 THEN "FAILED" ELSE "PENDING"

\* checkTransactionStatus maps Payment_Status: 1 SUCCESS, 2 PENDING, else FAILED.
PaymentStatusOf(code) ==
  IF code = 1 THEN "SUCCESS" ELSE IF code = 2 THEN "PENDING" ELSE "FAILED"

\* verifyTransaction that saves whenever the document is PENDING, whatever
\* the processor reported.
StatusChanged_anyReported(donation, mswipeStatus) ==
  donation.paymentStatus = "PENDING"

\* verifyTransaction without its test of the stored status.
StatusChanged_anyStored(donation, mswipeStatus) == mswipeStatus # "PENDING"

\* verifyTransaction updates only a PENDING document with a settled status.
StatusChanged(donation, mswipeStatus) ==
  donation.paymentStatus = "PENDING" /\ mswipeStatus # "PENDING"

\* A verifyTransaction that stores the status result in place of what
\* mswipePaymentResponse held.
ApplyStatus_overwritten(m, r) ==
  LET mswipeStatus == PaymentStatusOf(r.Payment_Status)
  IN AssignObject(Assign(Assign(Assign(Assign(m,
       "paymentStatus", mswipeStatus),
       "status", LegacyStatus(mswipeStatus)),
       "mswipeTransactionRef",
         IF r.Payment_Id # undefined THEN r.Payment_Id ELSE r.IPG_ID),
       "mswipeIpgId", r.IPG_ID),
       "mswipePaymentResponse",
         [NoPaymentResponse EXCEPT !.statusCheck = TRUE])

\* The document after verifyTransaction applied the status result r.
ApplyStatus(m, r) ==
  LET mswipeStatus == PaymentStatusOf(r.Payment_Status)
  IN AssignObject(Assign(Assign(Assign(Assign(m,
       "paymentStatus", mswipeStatus),
       "status", LegacyStatus(mswipeStatus)),
       "mswipeTransactionRef",
         IF r.Payment_Id # undefined THEN r.Payment_Id ELSE r.IPG_ID),
       "mswipeIpgId", r.IPG_ID),
       "mswipePaymentResponse",
         [m.doc.mswipePaymentResponse EXCEPT !.statusCheck = TRUE])

\* The 200 answer of verifyTransaction: the document's status and what the
\* processor reported (statusResult.data, kept as its status).
VerifyResponse(id, donation, mswipeStatus) ==
  [Json("verify", 200, donation.paymentStatus, id, donation.donationRef)
     EXCEPT !.mswipeStatus = mswipeStatus]

\* The status call of handler h returns r: a failure is answered 500, a
\* status to apply goes to the save, anything else is answered at once.
VerifyStatusWith(h, r) ==
  IF ~r.success
    THEN Respond(h, Json("verify", 500, h.doc.paymentStatus, h.id, NoId))
  ELSE IF StatusChanged(h.doc, PaymentStatusOf(r.Payment_Status))
    THEN Await(h, Handler("saveStatus", h.id, ApplyStatus(Mem(h), r)))
  ELSE Respond(h, VerifyResponse(h.id, h.doc,
                                 PaymentStatusOf(r.Payment_Status)))

\* The status call returns.
VerifyStatus(h) ==
  /\ At(h, "checkStatus")
  /\ \E r \in StatusResponses : VerifyStatusWith(h, r)
  /\ UNCHANGED <<db, env, cachedToken, tokenExpiry, now, emails, createOrderCalls, tokenRequests>>

\* The save of verifyTransaction.
VerifySave(h) ==
  /\ At(h, "saveStatus")
  /\ db' = [db EXCEPT ![h.id] = SavedOver(@, h.doc, h.mod)]
  /\ Await(h, Handler("savedStatus", h.id, Mem(h)))
  /\ UNCHANGED <<env, cachedToken, tokenExpiry, now, emails, createOrderCalls, tokenRequests>>

\* After the save: the email and the response. The status the processor
\* reported is the one the document has just been given.
VerifyFinish(h) ==
  /\ At(h, "savedStatus")
  /\ SendIfSuccess(h)
  /\ \E outcome \in EmailOutcomes(h) :
       RespondAfterEmail(h,
         AfterEmail(outcome, VerifyResponse(h.id, h.doc, h.doc.paymentStatus)),
         outcome)
  /\ UNCHANGED <<db, env, cachedToken, tokenExpiry, now, createOrderCalls, tokenRequests>>

(* --------------------------- getDonationStatus ------------------------ *)

\* An answer of getDonationStatus with the status alone.
StatusResponse_statusOnly(id, donation) ==
  Json("status", 200, donation.paymentStatus, id, donation.donationRef)

\* The 200 answer of getDonationStatus.
StatusResponse(id, donation) ==
  [Json("status", 200, donation.paymentStatus, id, donation.donationRef)
     EXCEPT !.amount = donation.amount,
            !.transactionRef = donation.mswipeTransactionRef,
            !.ipgId = donation.mswipeIpgId]

\* getDonationStatus of donationRef: one lookup and the answer.
StatusWith(donationRef) ==
  LET id == findOneByRef(donationRef)
  IN IF id = NoId
       THEN TurnAway(Json("status", 404, "Donation not found", NoId, NoId))
       ELSE Answer(StatusResponse(id, db[id]))

\* getDonationStatus.
GetStatus ==
  /\ Arrives
  /\ \E donationRef \in DonationRefs : StatusWith(donationRef)
  /\ UNCHANGED <<db, env, cachedToken, tokenExpiry, now, emails, createOrderCalls, tokenRequests>>

(* ---------------------- createDonation (legacy) ------------------------ *)

\* The document createDonation builds for a request body: the body's fields,
\* a generated donationRef, no Mswipe order id, and the payment taken as
\* completed outside the system.
manualDonationData(req, donationRef) ==
  [donationRef |-> donationRef,
   mswipeOrderId |-> NoId,
   amount |-> req.amount.v,
   paymentStatus |-> "SUCCESS",
   status |-> "completed",
   mswipeTransactionRef |-> undefined,
   mswipeIpgId |-> undefined,
   mswipeTransId |-> undefined,
   mswipePaymentResponse |-> NoPaymentResponse]

\* The schema's validation of the document createDonation builds, which no
\* controller check precedes: fullName is required after trimming, amount
\* must cast to a number, and the rest as for every new document. The schema
\* does not look at the form of email and phoneNumber.
ManualSchemaValid(req) ==
  /\ trim(req.fullName) # ""
  /\ req.amount.present
  /\ SchemaValid(req)

\* createDonation for body req with generated donationRef: the save and the
\* 201 answer, or the 500 of its catch (a validation error, or a duplicate
\* key that is not on transactionId).
createDonationWith(req, donationRef) ==
  LET d == manualDonationData(req, donationRef)
  IN IF ~ManualSchemaValid(req) \/ DuplicateKey(d)
       THEN /\ TurnAway(Json("manual", 500, "Internal server error", NoId, NoId))
            /\ UNCHANGED db
       ELSE /\ Len(db) < MaxDonations
            /\ db' = Append(db, d)
            /\ Answer(Json("manual", 201, "Manual donation recorded",
                           Len(db) + 1, donationRef))

\* createDonation.
createDonation ==
  /\ Arrives
  /\ UNCHANGED <<env, cachedToken, tokenExpiry, now, emails, createOrderCalls, tokenRequests>>
  /\ \E req \in InitiateRequests, donationRef \in DonationRefs :
       createDonationWith(req, donationRef)

(* ------------------------ exportDonationsToCSV ------------------------ *)

\* The filters of an export: a legacy or payment status, or none, and an
\* amount range (0: the bound is absent, and 0 is falsy anyway). The date
\* and reason filters constrain paths these documents do not model.
ExportFilters ==
  [status : {undefined, "completed", "SUCCESS", "pending", "failed"},
   minAmount : 0..MaxAmount,
   maxAmount : 0..MaxAmount]

\* An export whose legacy status filter stands in for the payment status.
exportQuery_statusAlone(filters) ==
  [paymentStatus |->
     IF filters.status \in {undefined, "completed", "SUCCESS"}
       THEN "SUCCESS" ELSE undefined,
   status |->
     IF filters.status \in {undefined, "completed", "SUCCESS"}
       THEN undefined ELSE filters.status,
   minAmount |-> filters.minAmount,
   maxAmount |-> filters.maxAmount]

\* The query exportDonationsToCSV builds (undefined, 0: no condition on
\* that path).
exportQuery(filters) ==
  [paymentStatus |-> "SUCCESS",
   status |->
     IF filters.status \in {undefined, "completed", "SUCCESS"}
       THEN undefined ELSE filters.status,
   minAmount |-> filters.minAmount,
   maxAmount |-> filters.maxAmount]

\* Donation.find(query): the stored donations that meet every condition.
find(query) ==
  {i \in 1..Len(db) :
     /\ query.paymentStatus = undefined
          \/ db[i].paymentStatus = query.paymentStatus
     /\ query.status = undefined \/ db[i].status = query.status
     /\ query.minAmount = 0 \/ db[i].amount >= query.minAmount
     /\ query.maxAmount = 0 \/ db[i].amount <= query.maxAmount}

\* exportDonationsToCSV: the rows exported, or the message that none met
\* the criteria.
exportDonationsToCSV ==
  /\ Arrives
  /\ \E filters \in ExportFilters :
       LET donations == find(exportQuery(filters))
       IN Answer([Json("export", 200,
                       IF donations = {} THEN "No donations found" ELSE "csv",
                       NoId, NoId)
                    EXCEPT !.rows = donations])
  /\ UNCHANGED <<db, env, cachedToken, tokenExpiry, now, emails, createOrderCalls, tokenRequests>>

(* ------------------------------ the system ---------------------------- *)

\* The connection of the answered request closes.
Close ==
  /\ Answering
  /\ resp' = NoResp
  /\ emailOutcome' = "none"
  /\ UNCHANGED <<db, reqs, env, cachedToken, tokenExpiry, now, emails,
                 createOrderCalls, tokenRequests>>

\* Handler h takes its next step.
Step(h) ==
  \/ InitiateToken(h)
  \/ InitiateLink(h)
  \/ InitiateSaveFailed(h)
  \/ InitiateSaveLinked(h)
  \/ CallbackSaveMismatch(h)
  \/ CallbackSave(h)
  \/ CallbackFinish(h)
  \/ VerifyStatus(h)
  \/ VerifySave(h)
  \/ VerifyFinish(h)

\* The step is not one of a limiter: its request is past it, or is on a
\* route without one.
PastLimiter == UNCHANGED <<isProduction, totalHits>>

\* The step is not one of a trivia request.
OutsideTrivia == UNCHANGED <<attempts, quizzes>>

Next ==
  \/ InitiateStart /\ PastLimiter /\ OutsideTrivia
  \/ CallbackStart /\ PastLimiter /\ OutsideTrivia
  \/ VerifyStart /\ PastLimiter /\ OutsideTrivia
  \/ GetStatus /\ PastLimiter /\ OutsideTrivia
  \/ (\E h \in Handlers : Step(h)) /\ PastLimiter /\ OutsideTrivia
  \/ Close /\ PastLimiter /\ OutsideTrivia

\* Requests overlap freely.
Spec == Init /\ [][Next]_vars

\* Requests are handled one at a time: a request arrives only when no other
\* is between its arrival and its response.
SeqNext ==
  \/ reqs = EmptyBag /\ InitiateStart /\ PastLimiter /\ OutsideTrivia
  \/ reqs = EmptyBag /\ CallbackStart /\ PastLimiter /\ OutsideTrivia
  \/ reqs = EmptyBag /\ VerifyStart /\ PastLimiter /\ OutsideTrivia
  \/ reqs = EmptyBag /\ GetStatus /\ PastLimiter /\ OutsideTrivia
  \/ (\E h \in Handlers : Step(h)) /\ PastLimiter /\ OutsideTrivia
  \/ Close /\ PastLimiter /\ OutsideTrivia

SeqSpec == Init /\ [][SeqNext]_vars

\* An initiatePayment of donation i is between its insert and its response.
Initiating(i) ==
  \E h \in Handlers :
    h.id = i /\ h.pc \in {"createOrder", "link", "saveFailed", "saveLinked"}

\* No initiatePayment is in flight.
Initiated == \A i \in 1..Len(db) : ~Initiating(i)

\* Every initiatePayment in flight has had its payment link created and is
\* before its final save or answering.
LinksCreated ==
  \A h \in Handlers : h.pc \notin {"createOrder", "link"}

\* Callbacks, verifications and status reads arrive once the processor has
\* created the payment link, which is before initiatePayment has saved it.
LinkedNext ==
  \/ InitiateStart /\ PastLimiter /\ OutsideTrivia
  \/ LinksCreated /\ CallbackStart /\ PastLimiter /\ OutsideTrivia
  \/ LinksCreated /\ VerifyStart /\ PastLimiter /\ OutsideTrivia
  \/ LinksCreated /\ GetStatus /\ PastLimiter /\ OutsideTrivia
  \/ (\E h \in Handlers : Step(h)) /\ PastLimiter /\ OutsideTrivia
  \/ Close /\ PastLimiter /\ OutsideTrivia

LinkedSpec == Init /\ [][LinkedNext]_vars

\* Callbacks and Verify requests overlap each other freely, but arrive only
\* after initiatePayment has answered: the processor calls back, and the
\* donor verifies, for a payment link initiatePayment has handed out.
RaceNext ==
  \/ InitiateStart /\ PastLimiter /\ OutsideTrivia
  \/ Initiated /\ CallbackStart /\ PastLimiter /\ OutsideTrivia
  \/ Initiated /\ VerifyStart /\ PastLimiter /\ OutsideTrivia
  \/ Initiated /\ GetStatus /\ PastLimiter /\ OutsideTrivia
  \/ (\E h \in Handlers : Step(h)) /\ PastLimiter /\ OutsideTrivia
  \/ Close /\ PastLimiter /\ OutsideTrivia

RaceSpec == Init /\ [][RaceNext]_vars

\* Initiate requests alone, one at a time, with generated identifiers that
\* can repeat and a store that holds a second donation.
IdNext ==
  \/ /\ reqs = EmptyBag /\ Arrives
     /\ UNCHANGED <<cachedToken, tokenExpiry, now, emails, createOrderCalls, tokenRequests, env>>
     /\ \E donationRef \in Slots, orderId \in Slots :
          InitiateWith(donationRef, orderId, IdCapacity)
     /\ PastLimiter /\ OutsideTrivia
  \/ (\E h \in Handlers : Step(h)) /\ PastLimiter /\ OutsideTrivia
  \/ Close /\ PastLimiter /\ OutsideTrivia

IdSpec == Init /\ [][IdNext]_vars

\* Requests handled one at a time, the legacy endpoint and the CSV export
\* among them.
LegacyNext ==
  \/ reqs = EmptyBag /\ InitiateStart /\ PastLimiter /\ OutsideTrivia
  \/ reqs = EmptyBag /\ CallbackStart /\ PastLimiter /\ OutsideTrivia
  \/ reqs = EmptyBag /\ VerifyStart /\ PastLimiter /\ OutsideTrivia
  \/ reqs = EmptyBag /\ GetStatus /\ PastLimiter /\ OutsideTrivia
  \/ reqs = EmptyBag /\ createDonation /\ PastLimiter /\ OutsideTrivia
  \/ reqs = EmptyBag /\ exportDonationsToCSV /\ PastLimiter /\ OutsideTrivia
  \/ (\E h \in Handlers : Step(h)) /\ PastLimiter /\ OutsideTrivia
  \/ Close /\ PastLimiter /\ OutsideTrivia

LegacySpec == Init /\ [][LegacyNext]_vars

(* ------------------------------ the clock ----------------------------- *)

\* The hours the clock runs.
MaxNow == 3

\* Every form of answer of the token endpoint: a failure, a token whose
\* payload cannot be decoded, one whose payload carries no exp, and tokens
\* with exp at each hour the clock can reach and the two after.
AllTokenResponses ==
  {[ok |-> FALSE, exp |-> 0, form |-> "none"]}
  \cup {[ok |-> TRUE, exp |-> 0, form |-> f] : f \in {"undecodable", "noexp"}}
  \cup {[ok |-> TRUE, exp |-> e, form |-> "exp"] : e \in 1..(MaxNow + 2)}

\* An hour passes.
Tick ==
  /\ now < MaxNow
  /\ now' = now + 1
  /\ UNCHANGED <<db, reqs, resp, env, cachedToken, tokenExpiry, emails,
                 createOrderCalls, tokenRequests, emailOutcome, isProduction,
                 totalHits, attempts, quizzes>>

\* A step of an initiatePayment, the token endpoint answering in every form.
TokenStep(h) ==
  \/ InitiateTokenFrom(h, AllTokenResponses)
  \/ InitiateLink(h)
  \/ InitiateSaveFailed(h)
  \/ InitiateSaveLinked(h)

\* Initiate requests one at a time while hours pass, with room for a second
\* donation, so that generateToken is called again with a token cached.
TokenNext ==
  \/ /\ reqs = EmptyBag /\ Arrives
     /\ UNCHANGED <<cachedToken, tokenExpiry, now, emails, createOrderCalls, tokenRequests, env>>
     /\ InitiateWith(Len(db) + 1, Len(db) + 1, IdCapacity)
     /\ PastLimiter /\ OutsideTrivia
  \/ (\E h \in Handlers : TokenStep(h)) /\ PastLimiter /\ OutsideTrivia
  \/ Close /\ PastLimiter /\ OutsideTrivia
  \/ Tick

TokenSpec == Init /\ [][TokenNext]_vars

(* ------------------- generateToken, calls overlapping ----------------- *)

\* data.token of a successful answer r of the token endpoint: the JWT, which
\* differs from answer to answer as its payload does.
Jwt(r) == IF r.form = "exp" THEN ToString(r.exp) ELSE r.form

\* generateToken up to its await: the cache is read, and a fresh token is
\* returned to createOrder at once; otherwise the post to CreatePBLAuthToken
\* is sent and the call waits for the answer.
TokenAsk(h) ==
  /\ At(h, "createOrder")
  /\ createOrderCalls' = [createOrderCalls EXCEPT ![h.id] = @ + 1]
  /\ IF CacheFresh(now)
       THEN /\ UNCHANGED tokenRequests
            /\ Await(h, Handler("link", h.id, Mem(h)))
       ELSE /\ tokenRequests' = tokenRequests + 1
            /\ Await(h, [h EXCEPT !.pc = "token"])
  /\ UNCHANGED <<db, env, emails, now, cachedToken, tokenExpiry>>

\* A generateToken that stores the token and leaves the expiry for later.
TokenAnswerWith_tokenOnly(h, r) ==
  IF r.ok
    THEN /\ cachedToken' = Jwt(r)
         /\ UNCHANGED tokenExpiry
         /\ Await(h, Handler("link", h.id, Mem(h)))
    ELSE /\ UNCHANGED <<cachedToken, tokenExpiry>>
         /\ Await(h, Handler("saveFailed", h.id, MarkFailed(Mem(h))))

\* generateToken after its await, the token endpoint having answered r: a
\* token is stored with its expiry, in one go, and createOrder goes on; a
\* failure is returned with the cache as it is.
TokenAnswerWith(h, r) ==
  IF r.ok
    THEN /\ cachedToken' = Jwt(r)
         /\ tokenExpiry' = ExpiryOf(r, now)
         /\ Await(h, Handler("link", h.id, Mem(h)))
    ELSE /\ UNCHANGED <<cachedToken, tokenExpiry>>
         /\ Await(h, Handler("saveFailed", h.id, MarkFailed(Mem(h))))

\* The token endpoint answers.
TokenAnswer(h) ==
  /\ At(h, "token")
  /\ \E r \in AllTokenResponses : TokenAnswerWith(h, r)
  /\ UNCHANGED <<db, env, emails, now, createOrderCalls, tokenRequests>>

\* A step of an initiatePayment whose generateToken is cut at its await.
OverlapStep(h) ==
  \/ TokenAsk(h)
  \/ TokenAnswer(h)
  \/ InitiateLink(h)
  \/ InitiateSaveFailed(h)
  \/ InitiateSaveLinked(h)

\* Initiate requests overlap while hours pass: two createOrder calls can
\* both find the cache stale and both ask for a token.
OverlapNext ==
  \/ /\ Arrives
     /\ UNCHANGED <<cachedToken, tokenExpiry, now, emails, createOrderCalls, tokenRequests, env>>
     /\ InitiateWith(Len(db) + 1, Len(db) + 1, IdCapacity)
     /\ PastLimiter /\ OutsideTrivia
  \/ (\E h \in Handlers : OverlapStep(h)) /\ PastLimiter /\ OutsideTrivia
  \/ Close /\ PastLimiter /\ OutsideTrivia
  \/ Tick

OverlapSpec == Init /\ [][OverlapNext]_vars

(* ----------------------------- the limiters --------------------------- *)

\* max of statusLimiter.
statusMax == 30

\* max of paymentLimiter in production, and elsewhere.
paymentMaxProduction == 5
paymentMaxElsewhere == 50

\* max of paymentLimiter.
paymentMax == IF isProduction THEN paymentMaxProduction ELSE paymentMaxElsewhere

\* max of a limiter.
maxOf(limiter) == IF limiter = "paymentLimiter" THEN paymentMax ELSE statusMax

\* The 429 of a limiter: the request does not reach its controller.
TooManyRequests(limiter) ==
  /\ ~Answering
  /\ resp' = Json(limiter, 429, "Too many requests", NoId, NoId)
  /\ UNCHANGED <<db, reqs, env, cachedToken, tokenExpiry, now, emails,
                 createOrderCalls, tokenRequests, emailOutcome>>

\* The sum of f over S.
RECURSIVE Sum(_, _)
Sum(f, S) ==
  IF S = {} THEN 0
  ELSE LET x == CHOOSE y \in S : TRUE IN f[x] + Sum(f, S \ {x})

\* The requests the limiters hold counted.
Counted ==
  Sum([limiter \in DOMAIN totalHits |-> Sum(totalHits[limiter], IPs)],
      DOMAIN totalHits)

\* A request of caller ip reaches a limiter: it is counted, and either
\* turned away, being beyond max in the caller's window, or passed on to
\* the controller of its route (next).
rateLimit(limiter, ip, next) ==
  /\ Counted < MaxHits
  /\ totalHits' = [totalHits EXCEPT ![limiter][ip] = @ + 1]
  /\ UNCHANGED isProduction
  /\ IF totalHits'[limiter][ip] > maxOf(limiter) THEN TooManyRequests(limiter) ELSE next

\* POST /initiate.
paymentLimiter(ip) == rateLimit("paymentLimiter", ip, InitiateStart)

\* GET /status/:donationRef and POST /verify/:donationRef.
statusLimiter(ip) == rateLimit("statusLimiter", ip, GetStatus \/ VerifyStart)

\* windowMs has passed since the first request a limiter counted for
\* caller ip: its count starts again.
WindowEnds ==
  /\ \E limiter \in DOMAIN totalHits, ip \in IPs :
       /\ totalHits[limiter][ip] > 0
       /\ totalHits' = [totalHits EXCEPT ![limiter][ip] = 0]
  /\ UNCHANGED <<db, reqs, resp, env, cachedToken, tokenExpiry, now, emails,
                 createOrderCalls, tokenRequests, emailOutcome, isProduction,
                 attempts, quizzes>>

\* The routes as mounted, in either kind of deployment.
LimitInit ==
  /\ db = << >>
  /\ reqs = EmptyBag
  /\ resp = NoResp
  /\ env \in [configured : BOOLEAN, frontendUrl : BOOLEAN]
  /\ cachedToken = undefined
  /\ tokenExpiry = 0
  /\ now = 0
  /\ emails = [i \in Slots |-> 0]
  /\ createOrderCalls = [i \in Slots |-> 0]
  /\ tokenRequests = 0
  /\ emailOutcome = "none"
  /\ isProduction \in BOOLEAN
  /\ totalHits = NoHits
  /\ attempts = NoAttempts
  /\ quizzes = EmptyBag

\* Requests handled one at a time, each through the limiter of its route.
LimitNext ==
  \/ (\E ip \in IPs : reqs = EmptyBag /\ paymentLimiter(ip)) /\ OutsideTrivia
  \/ (\E ip \in IPs : reqs = EmptyBag /\ statusLimiter(ip)) /\ OutsideTrivia
  \/ (\E h \in Handlers : Step(h)) /\ PastLimiter /\ OutsideTrivia
  \/ Close /\ PastLimiter /\ OutsideTrivia
  \/ WindowEnds

LimitSpec == LimitInit /\ [][LimitNext]_vars

(* ------------------------------ the trivia ---------------------------- *)

\* The questions of TRIVIA_QUESTIONS that have a correct answer.
totalScoredQuestions == 3

\* req.body.name: too short, or a name.
QuizNames == {"A", "Asha", "Ravi"}
\* name.trim().length on QuizNames.
NameLength(name) == IF name = "A" THEN 1 ELSE 4

\* req.body.phoneNumber: NoId is a missing number or one validatePhoneNumber
\* refuses; any other is given in its cleaned form.
PhoneInputs == {NoId} \cup Phones

\* req.body.otp: one that is not 4 to 6 digits, and one that is.
OtpInputs == {"12", "1234"}
\* /^\d{4,6}$/.test on OtpInputs.
IsOtp(otp) == otp = "1234"

\* req.body.answers: none, or for each scored question whether the selected
\* answer is the correct one; the sheets with the first n answers correct.
AnswerSheets ==
  {<< >>} \cup {[q \in 1..totalScoredQuestions |-> q <= n] :
                 n \in 0..totalScoredQuestions}

\* The score submitQuiz counts over the answers.
RECURSIVE ScoreOf(_)
ScoreOf(answers) ==
  IF answers = << >> THEN 0
  ELSE (IF Head(answers) THEN 1 ELSE 0) + ScoreOf(Tail(answers))

\* The trivia requests between their arrival and their response.
QuizHandlers == BagToSet(quizzes)

\* A trivia request can arrive.
QuizArrives == ~Answering /\ BagCardinality(quizzes) < MaxInFlight

\* Trivia handler h is at pc and can take its next step.
QuizAt(h, pc) == ~Answering /\ h \in QuizHandlers /\ h.pc = pc

\* The state of a trivia handler at pc holding document m of phone: past
\* its read, a handler uses the document only to insert it or to save its
\* modified paths, and the other paths are left out.
QuizHandler(pc, phone, m) ==
  [pc |-> pc, phone |-> phone,
   doc |-> [path \in DOMAIN NoAttempt |->
             IF pc = "insert" \/ path \in m.mod THEN m.doc[path]
             ELSE NoAttempt[path]],
   mod |-> m.mod]

\* A trivia request reaches its first await as g, goes on to its next as g,
\* or is answered with r, before any await or after the last.
QuizBegin(g) == quizzes' = quizzes (+) SetToBag({g}) /\ UNCHANGED resp
QuizAwait(h, g) ==
  quizzes' = (quizzes (-) SetToBag({h})) (+) SetToBag({g}) /\ UNCHANGED resp
QuizAnswer(r) == resp' = r /\ UNCHANGED quizzes
QuizRespond(h, r) == resp' = r /\ quizzes' = quizzes (-) SetToBag({h})

\* The step is one of a trivia request: no donation, token or limiter moves.
InsideTrivia ==
  UNCHANGED <<db, reqs, env, cachedToken, tokenExpiry, now, emails,
              createOrderCalls, tokenRequests, emailOutcome, isProduction,
              totalHits>>

\* initiateQuiz up to its first save or its sendOTP.
initiateQuizWith(name, phoneNumber) ==
  IF NameLength(name) < 2 \/ phoneNumber = NoId
    THEN QuizAnswer(Json("initiateQuiz", 400, "Validation failed.", NoId, NoId))
  ELSE LET attempt == attempts[phoneNumber]
           m == [doc |-> attempt, mod |-> {}]
       IN IF ~attempt.registered
            THEN QuizBegin(QuizHandler("insert", phoneNumber,
                   [doc |-> [NoAttempt EXCEPT !.registered = TRUE, !.name = name],
                    mod |-> {}]))
          ELSE IF attempt.isVerified /\ attempt.hasAttempted
            THEN QuizAnswer(Json("initiateQuiz", 400, "already completed",
                                 phoneNumber, NoId))
          ELSE IF attempt.isVerified
            THEN QuizAnswer(Json("initiateQuiz", 200, "already verified",
                                 phoneNumber, NoId))
          ELSE IF attempt.name # name
            THEN QuizBegin(QuizHandler("saveName", phoneNumber,
                                       Assign(m, "name", name)))
          ELSE QuizBegin(QuizHandler("sendOTP", phoneNumber, m))

initiateQuiz ==
  /\ QuizArrives
  /\ \E name \in QuizNames, phoneNumber \in PhoneInputs :
       initiateQuizWith(name, phoneNumber)
  /\ UNCHANGED attempts

\* The insert of a new attempt: the unique index on phoneNumber refuses a
\* second one, answered 400.
QuizInsert(h) ==
  /\ QuizAt(h, "insert")
  /\ IF attempts[h.phone].registered
       THEN /\ QuizRespond(h, Json("initiateQuiz", 400, "already registered",
                                   h.phone, NoId))
            /\ UNCHANGED attempts
       ELSE /\ attempts' = [attempts EXCEPT ![h.phone] = h.doc]
            /\ QuizAwait(h, QuizHandler("sendOTP", h.phone, Mem(h)))

\* The save of the new name of an attempt not yet verified.
QuizSaveName(h) ==
  /\ QuizAt(h, "saveName")
  /\ attempts' = [attempts EXCEPT ![h.phone] = SavedOver(@, h.doc, h.mod)]
  /\ QuizAwait(h, QuizHandler("sendOTP", h.phone, Mem(h)))

\* smsOtpService.sendOTP returns, with success or without.
QuizSendOTP(h) ==
  /\ QuizAt(h, "sendOTP")
  /\ \E success \in BOOLEAN :
       QuizRespond(h, Json("initiateQuiz", IF success THEN 200 ELSE 400,
                           "OTP", h.phone, NoId))
  /\ UNCHANGED attempts

\* verifyOTP up to its call of smsOtpService.verifyOTP.
verifyOTPWith(phoneNumber, otp) ==
  IF phoneNumber = NoId \/ ~IsOtp(otp)
    THEN QuizAnswer(Json("verifyOTP", 400, "invalid", NoId, NoId))
  ELSE LET attempt == attempts[phoneNumber]
       IN IF ~attempt.registered
            THEN QuizAnswer(Json("verifyOTP", 404, "No registration found",
                                 NoId, NoId))
          ELSE IF attempt.isVerified
            THEN QuizAnswer(Json("verifyOTP", 200, "already verified",
                                 phoneNumber, NoId))
          ELSE QuizBegin(QuizHandler("verifyOTP", phoneNumber,
                                     [doc |-> attempt, mod |-> {}]))

verifyOTP ==
  /\ QuizArrives
  /\ \E phoneNumber \in PhoneInputs, otp \in OtpInputs :
       verifyOTPWith(phoneNumber, otp)
  /\ UNCHANGED attempts

\* smsOtpService.verifyOTP returns for handler h: a failure is answered 400,
\* a success marks the document verified, to be saved.
OtpVerifiedWith(h, success) ==
  IF ~success
    THEN QuizRespond(h, Json("verifyOTP", 400, "OTP refused", h.phone, NoId))
    ELSE QuizAwait(h, QuizHandler("saveVerified", h.phone,
           Assign(Assign(Mem(h), "isVerified", TRUE), "verifiedAt", now)))

QuizOtpVerified(h) ==
  /\ QuizAt(h, "verifyOTP")
  /\ \E success \in BOOLEAN : OtpVerifiedWith(h, success)
  /\ UNCHANGED attempts

\* The save of verifyOTP, answered 200.
QuizSaveVerified(h) ==
  /\ QuizAt(h, "saveVerified")
  /\ attempts' = [attempts EXCEPT ![h.phone] = SavedOver(@, h.doc, h.mod)]
  /\ QuizRespond(h, Json("verifyOTP", 200, "verified", h.phone, NoId))

\* A submitQuiz without its test of isVerified.
NotVerified_never(attempt) == FALSE

\* submitQuiz refuses an attempt whose phone is not verified.
NotVerified(attempt) == ~attempt.isVerified

\* The document after submitQuiz processed the answers.
MarkAttempted(m, answers) ==
  Assign(AssignObject(Assign(Assign(m,
    "hasAttempted", TRUE),
    "score", ScoreOf(answers)),
    "answers", answers),
    "attemptedAt", now)

\* submitQuiz up to its save.
submitQuizWith(phoneNumber, answers) ==
  IF phoneNumber = NoId \/ answers = << >>
    THEN QuizAnswer(Json("submitQuiz", 400, "invalid", NoId, NoId))
  ELSE LET attempt == attempts[phoneNumber]
       IN IF ~attempt.registered
            THEN QuizAnswer(Json("submitQuiz", 404, "No registration found",
                                 NoId, NoId))
          ELSE IF NotVerified(attempt)
            THEN QuizAnswer(Json("submitQuiz", 403, "not verified",
                                 phoneNumber, NoId))
          ELSE IF attempt.hasAttempted
            THEN QuizAnswer(Json("submitQuiz", 400, "already submitted",
                                 phoneNumber, NoId))
          ELSE QuizBegin(QuizHandler("saveQuiz", phoneNumber,
                 MarkAttempted([doc |-> attempt, mod |-> {}], answers)))

submitQuiz ==
  /\ QuizArrives
  /\ \E phoneNumber \in PhoneInputs, answers \in AnswerSheets :
       submitQuizWith(phoneNumber, answers)
  /\ UNCHANGED attempts

\* The save of submitQuiz, answered 200.
QuizSaveQuiz(h) ==
  /\ QuizAt(h, "saveQuiz")
  /\ attempts' = [attempts EXCEPT ![h.phone] = SavedOver(@, h.doc, h.mod)]
  /\ QuizRespond(h, Json("submitQuiz", 200, "submitted", h.phone, NoId))

\* Trivia handler h takes its next step.
QuizStep(h) ==
  \/ QuizInsert(h)
  \/ QuizSaveName(h)
  \/ QuizSendOTP(h)
  \/ QuizOtpVerified(h)
  \/ QuizSaveVerified(h)
  \/ QuizSaveQuiz(h)

\* The hours the clock runs during the quiz.
MaxQuizHours == 1

\* The trivia requests, overlapping freely, while hours pass.
TriviaNext ==
  \/ initiateQuiz /\ InsideTrivia
  \/ verifyOTP /\ InsideTrivia
  \/ submitQuiz /\ InsideTrivia
  \/ (\E h \in QuizHandlers : QuizStep(h)) /\ InsideTrivia
  \/ Close /\ PastLimiter /\ OutsideTrivia
  \/ now < MaxQuizHours /\ Tick

\* The payment gateway configured: no trivia request reads env.
TriviaInit == Init /\ env.configured /\ env.frontendUrl

TriviaSpec == TriviaInit /\ [][TriviaNext]_vars

(* ----------------------------- properties ----------------------------- *)

\* The stored donations.
Donations == 1..Len(db)

\* The payment statuses a donation ends in.
Settled == {"SUCCESS", "FAILED"}

\* Handler h takes a step (it leaves the state it was in).
Leaves(h) == h \in Handlers /\ CopiesIn(h, reqs') < CopiesIn(h, reqs)

\* Handler h performs the save of a callback or of a Verify.
Saves(h) == Leaves(h) /\ h.pc \in {"saveCallback", "saveMismatch", "saveStatus"}

\* C1: with requests handled one at a time, the stored paymentStatus of a
\* donation changes only from PENDING, and only to SUCCESS or FAILED.
C1_StatusSettlesOnce ==
  [][\A i \in Donations :
       db'[i].paymentStatus # db[i].paymentStatus
         => db[i].paymentStatus = "PENDING" /\ db'[i].paymentStatus \in Settled]_vars

\* A Verify reports SUCCESS for a donation it did not write: the donation
\* was settled before that request loaded it.
C1_VerifyMetSettled ==
  /\ resp.by = "verify" /\ resp.code = 200 /\ resp.status = "SUCCESS"
  /\ db[resp.id].paymentStatus = "SUCCESS"
  /\ ~db[resp.id].mswipePaymentResponse.statusCheck

\* C2: of overlapping callbacks and Verify requests on a PENDING donation
\* one settles it; the save of another, made when the stored status is no
\* longer PENDING, does not change that status.
C2_LoserLeavesStatus ==
  [][\A h \in Handlers :
       (Saves(h) /\ db[h.id].paymentStatus \in Settled)
         => db'[h.id].paymentStatus = db[h.id].paymentStatus]_vars

\* C3: a callback on a PENDING donation whose payload declares an amount
\* other than the stored one never stores SUCCESS.
C3_OtherAmountNeverSucceeds ==
  [][\A h \in Handlers :
       (Leaves(h) /\ h.differs /\ h.pc \in {"saveCallback", "saveMismatch"})
         => db'[h.id].paymentStatus # "SUCCESS"]_vars

C5_RefIffSettled ==
  \A i \in Donations :
    db[i].mswipeTransactionRef # undefined <=> db[i].paymentStatus # "PENDING"

\* C6: the save of a callback that passed the amount check leaves the
\* donation SUCCESS or FAILED.
C6_AcceptedCallbackSettles ==
  [][\A h \in Handlers :
       (Leaves(h) /\ h.pc = "saveCallback") => db'[h.id].paymentStatus \in Settled]_vars

\* C7: sendDonationEmail is called at most once per donation, and once for
\* a SUCCESS donation no request is working on.
C7_OneEmail ==
  \A i \in Donations :
    /\ emails[i] <= 1
    /\ (db[i].paymentStatus = "SUCCESS" /\ ~\E h \in Handlers : h.id = i)
         => emails[i] = 1

\* C8: sendDonationEmail is called only for a donation whose stored
\* paymentStatus is SUCCESS at the call.
C8_EmailOnlyStoredSuccess ==
  [][\A i \in Donations :
       emails'[i] > emails[i] => db[i].paymentStatus = "SUCCESS"]_vars

\* The initiatePayment of donation i has answered without a payment link.
FailedAtLink(i) == ~db[i].mswipePaymentResponse.link /\ ~Initiating(i)

\* C9: the save initiatePayment makes after createOrder failed stores FAILED
\* and is answered with 500 and the donationRef; from then on, whatever
\* callbacks and Verify requests arrive, the donation is FAILED.
C9_LinkFailureIsFinal ==
  [][/\ \A h \in Handlers :
          (Leaves(h) /\ h.pc = "saveFailed") =>
            /\ db'[h.id].paymentStatus = "FAILED"
            /\ resp'.by = "initiate" /\ resp'.code = 500 /\ resp'.id = h.id
            /\ resp'.ref = db'[h.id].donationRef
     /\ \A i \in Donations :
          FailedAtLink(i) =>
            db[i].paymentStatus = "FAILED" /\ db'[i].paymentStatus = "FAILED"]_vars

\* A callback for a donation that failed at link creation has been answered
\* by the replay guard, and the donation is FAILED.
C9_CallbackMetFailedLink ==
  /\ resp.by = "replay" /\ resp.status \in {"FAILED", "failed"}
  /\ FailedAtLink(resp.id)
  /\ createOrderCalls[resp.id] = 1
  /\ db[resp.id].paymentStatus = "FAILED"

C11_IdentifiersUnique ==
  \A i, j \in Donations :
    i # j => /\ db[i].donationRef # db[j].donationRef
             /\ db[i].mswipeOrderId # db[j].mswipeOrderId

\* C12: an initiatePayment that passed the checks and generated the
\* donationRef of a stored donation answers 409, stores nothing, changes no
\* stored donation, and neither calls createOrder nor touches the token.
C12_DuplicateRefused ==
  [][\A donationRef \in Slots, orderId \in Slots :
       \A req \in {r \in InitiateRequests : InitiateRejection(r) = 0} :
         (/\ findOneByRef(donationRef) # NoId
          /\ reqs = EmptyBag /\ Arrives
          /\ InitiateInsert(req, donationRef, orderId, IdCapacity))
           => /\ resp'.by = "initiate" /\ resp'.code = 409 /\ resp'.id = NoId
              /\ db' = db /\ reqs' = reqs
              /\ createOrderCalls' = createOrderCalls
              /\ cachedToken' = cachedToken /\ tokenExpiry' = tokenExpiry]_vars

\* An initiatePayment is being answered 409 while the store holds a
\* donation and has room for another.
C12_DuplicateAnswered ==
  /\ resp.by = "initiate" /\ resp.code = 409
  /\ Len(db) >= 1 /\ Len(db) < IdCapacity
  /\ reqs = EmptyBag

\* C13: a callback whose payload has no ME_InvNo is answered 400 and leaves
\* every donation and every request in flight as it was, whatever IPG_ID it
\* carries.
C13_NoOrderIdRefused ==
  [][\A IPG_ID \in {undefined, "IPG"} :
       (Arrives /\ CallbackWith(NoId, IPG_ID))
         => /\ resp'.by = "callback" /\ resp'.code = 400
            /\ db' = db /\ reqs' = reqs]_vars

\* C14: a callback whose order id no stored donation has is answered 404,
\* stores no donation and changes none; and a step that changes the number
\* of stored donations is the insert of initiatePayment.
C14_UnknownOrderCreatesNothing ==
  [][/\ \A ME_InvNo \in {UnknownOrderId} \cup OrderIds,
           IPG_ID \in {undefined, "IPG"} :
          (/\ Arrives
           /\ \A i \in Donations : db[i].mswipeOrderId # ME_InvNo
           /\ CallbackWith(ME_InvNo, IPG_ID))
            => /\ resp'.by = "callback" /\ resp'.code = 404 /\ resp'.id = NoId
               /\ db' = db /\ reqs' = reqs
     /\ Len(db') # Len(db) => InitiateStart]_vars

\* A callback for an order id no donation has was answered 404 while a
\* donation is stored.
C14_UnknownOrderAnswered ==
  /\ resp.by = "callback" /\ resp.code = 404
  /\ Len(db) >= 1

\* C15: verifyTransaction of a donation that holds no mswipeTransId is
\* answered 400 with the stored status; no status call starts, no payment
\* link is requested, the token is not touched and no donation changes.
C15_UnverifiableAsksNothing ==
  [][\A donationRef \in DonationRefs :
       LET id == findOneByRef(donationRef)
       IN (/\ Arrives
           /\ id # NoId
           /\ db[id].mswipeTransId = undefined
           /\ VerifyWith(donationRef))
            => /\ resp'.by = "verify" /\ resp'.code = 400 /\ resp'.id = id
               /\ resp'.status = db[id].paymentStatus
               /\ db' = db /\ reqs' = reqs
               /\ createOrderCalls' = createOrderCalls
               /\ cachedToken' = cachedToken /\ tokenExpiry' = tokenExpiry]_vars

\* verifyTransaction answered 400 for a stored donation without mswipeTransId.
C15_UnverifiableAnswered ==
  /\ resp.by = "verify" /\ resp.code = 400 /\ resp.id # NoId
  /\ db[resp.id].mswipeTransId = undefined

\* C16: with requests handled one at a time, when the status call of a
\* verifyTransaction returns a status, the handler goes on to save the
\* reported status exactly when the stored status is PENDING and the
\* reported one is not; otherwise it answers 200 at once and stores nothing.
\* Its save writes the reported status over a stored PENDING and touches no
\* other donation. Every 200 answer carries the stored status as it is
\* after the request, together with the status the processor reported.
C16_VerifyAppliesReported ==
  [][\A h \in Handlers :
       /\ (h.pc = "checkStatus" /\ Leaves(h)) =>
            /\ db' = db
            /\ \A r \in StatusResponses :
                 (r.success /\ VerifyStatusWith(h, r)) =>
                   LET reported == PaymentStatusOf(r.Payment_Status)
                   IN IF db[h.id].paymentStatus = "PENDING" /\ reported # "PENDING"
                        THEN \E g \in BagToSet(reqs') :
                               /\ g.pc = "saveStatus" /\ g.id = h.id
                               /\ g.doc.paymentStatus = reported
                               /\ "paymentStatus" \in g.mod
                        ELSE /\ resp'.by = "verify" /\ resp'.code = 200
                             /\ resp'.id = h.id
                             /\ resp'.status = db[h.id].paymentStatus
                             /\ resp'.mswipeStatus = reported
                             /\ reqs' = EmptyBag
       /\ (h.pc = "saveStatus" /\ Leaves(h)) =>
            /\ db[h.id].paymentStatus = "PENDING"
            /\ h.doc.paymentStatus # "PENDING"
            /\ db'[h.id].paymentStatus = h.doc.paymentStatus
            /\ \A i \in Donations \ {h.id} : db'[i] = db[i]
       /\ (h.pc = "savedStatus" /\ Leaves(h)) =>
            /\ db' = db
            /\ resp'.by = "verify" /\ resp'.code = 200 /\ resp'.id = h.id
            /\ resp'.status = db[h.id].paymentStatus
            /\ resp'.mswipeStatus = db[h.id].paymentStatus]_vars

\* verifyTransaction answered 200 with SUCCESS for a donation its own save
\* settled.
C16_VerifySettled ==
  /\ resp.by = "verify" /\ resp.code = 200 /\ resp.status = "SUCCESS"
  /\ resp.mswipeStatus = "SUCCESS"
  /\ db[resp.id].paymentStatus = "SUCCESS"
  /\ db[resp.id].mswipePaymentResponse.statusCheck

\* C17: getDonationStatus of a stored donationRef answers 200 with that
\* donation's paymentStatus, amount, mswipeTransactionRef and mswipeIpgId;
\* of any other donationRef it answers 404. Either way no donation changes,
\* no handler starts or moves, the token cache is as it was, and no payment
\* link and no email is requested.
C17_StatusIsPureRead ==
  [][\A donationRef \in DonationRefs :
       (Arrives /\ StatusWith(donationRef)) =>
         /\ db' = db /\ reqs' = reqs
         /\ cachedToken' = cachedToken /\ tokenExpiry' = tokenExpiry
         /\ createOrderCalls' = createOrderCalls /\ emails' = emails
         /\ resp'.by = "status"
         /\ LET hits == {i \in Donations : db[i].donationRef = donationRef}
            IN IF hits = {}
                 THEN resp'.code = 404
                 ELSE \E i \in hits :
                        /\ resp'.code = 200 /\ resp'.id = i
                        /\ resp'.ref = donationRef
                        /\ resp'.status = db[i].paymentStatus
                        /\ resp'.amount = db[i].amount
                        /\ resp'.transactionRef = db[i].mswipeTransactionRef
                        /\ resp'.ipgId = db[i].mswipeIpgId]_vars

\* getDonationStatus answered 200 for a donation a callback or a
\* verification settled SUCCESS, with its processor reference.
C17_StatusRead ==
  /\ resp.by = "status" /\ resp.code = 200
  /\ db[resp.id].paymentStatus = "SUCCESS"
  /\ resp.transactionRef # undefined
  /\ resp.amount = db[resp.id].amount

\* C18: the step of handleCallback or verifyTransaction that follows its
\* save (the email call and the response) changes no stored donation and
\* sends the 200 or redirect answer made from the document the handler
\* saved, whether the email call returned, threw or was not made.
C18_EmailFailureIsSwallowed ==
  [][\A h \in Handlers :
       (h.pc \in {"savedCallback", "savedStatus"} /\ Leaves(h)) =>
         /\ db' = db
         /\ resp'.code \in {200, 302}
         /\ resp' = IF h.pc = "savedCallback"
                      THEN CallbackResponse(h.id, h.doc)
                      ELSE VerifyResponse(h.id, h.doc, h.doc.paymentStatus)]_vars

\* The email call threw after a donation was settled SUCCESS, and the
\* request was answered with success all the same.
C18_EmailThrew ==
  /\ emailOutcome = "threw"
  /\ resp.code \in {200, 302}
  /\ resp.status \in {"SUCCESS", "success"}
  /\ db[resp.id].paymentStatus = "SUCCESS"

\* C19: a callback refused for its amount is answered 200 or with a
\* redirect, and its donation is stored FAILED.
C19_MismatchNotSurfaced ==
  resp.by = "mismatch"
    => /\ resp.code \in {200, 302}
       /\ db[resp.id].paymentStatus = "FAILED"

\* C20: a callback that found its donation, settled or not, is answered
\* with a redirect carrying status, ref and amount when
\* FRONTEND_PAYMENT_RESULT_URL is set, and with JSON only when it is not.
C20_FoundCallbackRedirects ==
  (resp.by \in {"replay", "callback"} /\ resp.id # NoId)
    => IF env.frontendUrl
         THEN /\ resp.type = "redirect"
              /\ resp.status = LowerStatus(db[resp.id].paymentStatus)
              /\ resp.ref = db[resp.id].donationRef
              /\ resp.amount = db[resp.id].amount
         ELSE resp.type = "json"

\* C21: a donation that enters the store enters it PENDING, and a stored
\* donation becomes SUCCESS or FAILED only by the save of a callback, of a
\* verification or of an initiatePayment whose link creation failed.
C21_EntersPending ==
  [][/\ Len(db') > Len(db) => db'[Len(db')].paymentStatus = "PENDING"
     /\ \A i \in Donations :
          (db[i].paymentStatus = "PENDING" /\ db'[i].paymentStatus \in Settled)
            => \E h \in Handlers :
                 /\ Leaves(h) /\ h.id = i
                 /\ h.pc \in {"saveCallback", "saveMismatch", "saveStatus",
                              "saveFailed"}]_vars

\* C22: no step removes a stored donation, and no step changes the amount,
\* the donationRef or the mswipeOrderId of a stored donation.
C22_IdentityIsImmutable ==
  [][/\ Len(db') >= Len(db)
     /\ \A i \in Donations :
          /\ db'[i].amount = db[i].amount
          /\ db'[i].donationRef = db[i].donationRef
          /\ db'[i].mswipeOrderId = db[i].mswipeOrderId]_vars

\* A donation has been written by initiatePayment, by a callback and by a
\* verification, and holds the amount and identifiers it was created with.
C22_WrittenByAll ==
  \E i \in Donations :
    /\ db[i].mswipePaymentResponse.link
    /\ db[i].mswipePaymentResponse.callback
    /\ db[i].mswipePaymentResponse.statusCheck
    /\ db[i].amount >= SchemaAmountMin
    /\ db[i].donationRef \in DonationRefs /\ db[i].mswipeOrderId \in OrderIds

\* C23 as stated: an initiatePayment whose body has a blank name, an invalid
\* email, a phone that is not ten digits, or an amount that is absent or not
\* above 0 is answered 400 with the violations, inserts nothing and starts
\* no handler.
C23_MalformedIsRefused ==
  [][\A req \in InitiateRequests, donationRef \in DonationRefs,
        orderId \in OrderIds :
       (/\ \/ trim(req.fullName) = "" \/ ~isEmail(req.email)
           \/ ~isTenDigits(req.phoneNumber)
           \/ ~req.amount.present \/ req.amount.v <= 0
        /\ reqs = EmptyBag /\ Arrives
        /\ InitiateOf(req, donationRef, orderId, MaxDonations))
         => /\ resp'.by = "initiate" /\ resp'.code = 400
            /\ resp'.errors # {}
            /\ db' = db /\ reqs' = reqs
            /\ createOrderCalls' = createOrderCalls
            /\ cachedToken' = cachedToken /\ tokenExpiry' = tokenExpiry]_vars

\* C23: while Mswipe is configured, an initiatePayment whose body has a
\* blank name, an invalid email, a phone that is not ten digits, or an
\* amount that is absent or not above 0 is answered 400 with the violations;
\* while it is not configured, it is answered 503. Either way nothing is
\* inserted, no handler starts, createOrder is not called and the token is
\* not touched.
C23_MalformedIsRefusedWhenConfigured ==
  [][\A req \in InitiateRequests, donationRef \in DonationRefs,
        orderId \in OrderIds :
       (/\ \/ trim(req.fullName) = "" \/ ~isEmail(req.email)
           \/ ~isTenDigits(req.phoneNumber)
           \/ ~req.amount.present \/ req.amount.v <= 0
        /\ reqs = EmptyBag /\ Arrives
        /\ InitiateOf(req, donationRef, orderId, MaxDonations))
         => /\ resp'.by = "initiate"
            /\ IF env.configured
                 THEN resp'.code = 400 /\ resp'.errors # {}
                 ELSE resp'.code = 503 /\ resp'.errors = {}
            /\ db' = db /\ reqs' = reqs
            /\ createOrderCalls' = createOrderCalls
            /\ cachedToken' = cachedToken /\ tokenExpiry' = tokenExpiry]_vars

\* initiatePayment answered 400 with more than one violation while a
\* donation is stored.
C23_ViolationsListed ==
  /\ resp.by = "initiate" /\ resp.code = 400
  /\ Cardinality(resp.errors) >= 2
  /\ env.configured
  /\ Len(db) >= 1

\* C24: when the save of a callback or of a verification settles a donation
\* whose mswipePaymentResponse holds the link-creation response, the stored
\* mswipePaymentResponse afterwards holds the link-creation response and the
\* entry of that request (callback, or statusCheck).
C24_PayloadIsMerged ==
  [][\A h \in Handlers :
       (/\ h.pc \in {"saveCallback", "saveStatus"} /\ Leaves(h)
        /\ db[h.id].mswipePaymentResponse.link
        /\ db'[h.id].paymentStatus \in Settled
        /\ db'[h.id].paymentStatus # db[h.id].paymentStatus)
         => /\ db'[h.id].mswipePaymentResponse.link
            /\ h.pc = "saveCallback" => db'[h.id].mswipePaymentResponse.callback
            /\ h.pc = "saveStatus" => db'[h.id].mswipePaymentResponse.statusCheck]_vars

\* A verification settled a linked donation and its answer is being sent:
\* the stored data holds the link-creation response and the statusCheck
\* entry.
C24_StatusCheckMerged ==
  /\ resp.by = "verify" /\ resp.code = 200 /\ resp.id # NoId
  /\ db[resp.id].paymentStatus \in Settled
  /\ db[resp.id].mswipePaymentResponse.link
  /\ db[resp.id].mswipePaymentResponse.statusCheck

\* C25: a request to POST /initiate from a caller for whom paymentLimiter
\* already counted five in its window is answered 429 and reaches no
\* controller (nothing is stored, no handler starts); and max of
\* paymentLimiter is below max of statusLimiter.
C25_SixthInitiateIsRefused ==
  [][/\ paymentMax < statusMax
     /\ \A ip \in IPs :
          (/\ totalHits.paymentLimiter[ip] >= paymentMaxProduction
           /\ totalHits'.paymentLimiter[ip] = totalHits.paymentLimiter[ip] + 1)
            => /\ resp'.by = "paymentLimiter" /\ resp'.code = 429
               /\ db' = db /\ reqs' = reqs]_vars

\* C26: whatever the filters, the donations exportDonationsToCSV finds all
\* have paymentStatus SUCCESS, and so have the rows of every export made.
C26_ExportsOnlySuccess ==
  /\ \A filters \in ExportFilters :
       \A i \in find(exportQuery(filters)) : db[i].paymentStatus = "SUCCESS"
  /\ resp.by = "export" =>
       \A i \in resp.rows : i \in Donations /\ db[i].paymentStatus = "SUCCESS"

\* An export was made while a FAILED donation with legacy status 'failed'
\* is stored, a filter with status 'failed' among those it can have been
\* given, and it returned no row.
C26_FailedNotExported ==
  /\ resp.by = "export" /\ resp.rows = {}
  /\ \E i \in Donations :
       db[i].paymentStatus = "FAILED" /\ db[i].status = "failed"
  /\ \E filters \in ExportFilters :
       filters.status = "failed" /\ find(exportQuery(filters)) = {}

\* C27: when createOrder asks generateToken for a token, the token endpoint
\* is not asked and the cache is left as it is exactly when a token is
\* cached whose expiry is more than bufferTime after now; otherwise the
\* endpoint is asked once, and either its token is cached with its expiry
\* and createOrder goes on to the payment link, or the request failed, the
\* cache is as it was and createOrder fails.
C27_CachedIffFresh ==
  [][\A h \in Handlers :
       (h.pc = "createOrder" /\ Leaves(h)) =>
         IF cachedToken # undefined /\ tokenExpiry > now + bufferTime
           THEN /\ tokenRequests' = tokenRequests
                /\ cachedToken' = cachedToken /\ tokenExpiry' = tokenExpiry
                /\ \E g \in BagToSet(reqs') : g.pc = "link" /\ g.id = h.id
           ELSE /\ tokenRequests' = tokenRequests + 1
                /\ \/ /\ \E g \in BagToSet(reqs') : g.pc = "link" /\ g.id = h.id
                      /\ cachedToken' = "token"
                      /\ \E r \in AllTokenResponses :
                           r.ok /\ tokenExpiry' = ExpiryOf(r, now)
                   \/ /\ \E g \in BagToSet(reqs') :
                           g.pc = "saveFailed" /\ g.id = h.id
                      /\ cachedToken' = cachedToken
                      /\ tokenExpiry' = tokenExpiry]_vars

\* Two createOrder calls were made and the token endpoint was asked once:
\* the second call was served from the cache.
C27_ServedFromCache ==
  /\ createOrderCalls[1] = 1 /\ createOrderCalls[2] = 1
  /\ tokenRequests = 1
  /\ now >= 1
  /\ cachedToken # undefined

\* C28: when the token endpoint is asked and answers with a token whose
\* expiry cannot be read (its payload cannot be decoded, or carries no exp),
\* tokenExpiry becomes the default life after now.
C28_UndeterminedExpiryIsDefault ==
  [][\A h \in Handlers :
       (h.pc = "createOrder" /\ Leaves(h)
        /\ ~(cachedToken # undefined /\ tokenExpiry > now + bufferTime)) =>
         \A r \in AllTokenResponses :
           (r.ok /\ r.form \in {"undecodable", "noexp"} /\ generateToken(h, r))
             => tokenExpiry' = now + DefaultTokenHours]_vars

\* Handler h is replaced in this step by a handler of the same request at pc.
Becomes(h, pc) ==
  \E g \in BagToSet(reqs') :
    g.pc = pc /\ g.id = h.id /\ CopiesIn(g, reqs') > CopiesIn(g, reqs)

\* C29: createOrder never returns success without a payment URL. When its
\* token request fails it returns failure and the payment-link endpoint is
\* not called; when the endpoint is called, it returns failure for an
\* error, an unsuccessful status flag or an answer without smslink, and
\* success (the document then holds the link-creation response) for every
\* other answer.
C29_CreateOrderOutcome ==
  [][\A h \in Handlers :
       /\ (h.pc = "createOrder" /\ Leaves(h)) =>
            /\ ~Becomes(h, "saveLinked")
            /\ Becomes(h, "link") \/ Becomes(h, "saveFailed")
            /\ \A r \in AllTokenResponses :
                 (~r.ok /\ tokenRequests' # tokenRequests /\ generateToken(h, r))
                   => Becomes(h, "saveFailed") /\ ~Becomes(h, "link")
       /\ (h.pc = "link" /\ Leaves(h)) =>
            \A r \in LinkResponses :
              InitiateLinkWith(h, r) =>
                IF r \in {"error", "statusFalse", "noSmslink"}
                  THEN Becomes(h, "saveFailed") /\ ~Becomes(h, "saveLinked")
                  ELSE /\ ~Becomes(h, "saveFailed")
                       /\ \E g \in BagToSet(reqs') :
                            /\ g.pc = "saveLinked" /\ g.id = h.id
                            /\ g.doc.mswipePaymentResponse.link]_vars

\* createOrder returned failure without a token: the payment-link endpoint
\* was never called for this request.
C29_FailedWithoutLinkCall ==
  \E h \in Handlers :
    /\ h.pc = "saveFailed"
    /\ cachedToken = undefined
    /\ tokenRequests >= 1

\* C30: createOrder succeeds on an smslink without TransID and initiatePayment
\* then answers 200 with the payment URL, the donation stored PENDING without
\* mswipeTransId. Every verifyTransaction of such a donation is answered 400,
\* starts no status call and changes nothing; its payment status changes
\* only in the save of a handleCallback.
C30_NoTransIdOnlyCallbackSettles ==
  [][/\ \A h \in Handlers :
          /\ (h.pc = "link" /\ Leaves(h) /\ InitiateLinkWith(h, "linkNoTransId")) =>
               \E g \in BagToSet(reqs') :
                 /\ g.pc = "saveLinked" /\ g.id = h.id
                 /\ g.doc.mswipeTransId = undefined
          /\ (h.pc = "saveLinked" /\ Leaves(h) /\ h.doc.mswipeTransId = undefined) =>
               /\ resp'.by = "initiate" /\ resp'.code = 200
               /\ resp'.status = "paymentUrl" /\ resp'.id = h.id
               /\ db'[h.id].paymentStatus = "PENDING"
               /\ db'[h.id].mswipePaymentResponse.link
               /\ db'[h.id].mswipeTransId = undefined
     /\ \A donationRef \in DonationRefs :
          LET id == findOneByRef(donationRef)
          IN (/\ Arrives
              /\ id # NoId
              /\ db[id].mswipePaymentResponse.link
              /\ db[id].mswipeTransId = undefined
              /\ VerifyWith(donationRef))
               => /\ resp'.by = "verify" /\ resp'.code = 400
                  /\ db' = db /\ reqs' = reqs
     /\ \A i \in Donations :
          (/\ db[i].mswipePaymentResponse.link
           /\ db[i].mswipeTransId = undefined
           /\ db'[i].paymentStatus # db[i].paymentStatus)
            => \E h \in Handlers :
                 /\ Leaves(h) /\ h.id = i
                 /\ h.pc \in {"saveCallback", "saveMismatch"}]_vars

\* A donation linked without TransID was settled by a callback, and a
\* verification of it is being refused.
C30_RefusedAfterCallback ==
  /\ resp.by = "verify" /\ resp.code = 400 /\ resp.id # NoId
  /\ db[resp.id].mswipePaymentResponse.link
  /\ db[resp.id].mswipeTransId = undefined
  /\ db[resp.id].paymentStatus = "SUCCESS"

\* C31: the status checkTransactionStatus reports for a transaction is
\* SUCCESS for Payment_Status 1, PENDING for 2 and FAILED for every other
\* code; it is what verifyTransaction answers with, or saves.
C31_StatusCodeMapping ==
  [][\A h \in Handlers :
       (h.pc = "checkStatus" /\ Leaves(h)) =>
         \A a \in StatusAnswers :
           (a.kind = "data" /\ VerifyStatusWith(h, checkTransactionStatus(a))) =>
             LET reported == CASE a.Payment_Status = 1 -> "SUCCESS"
                               [] a.Payment_Status = 2 -> "PENDING"
                               [] OTHER -> "FAILED"
             IN IF Becomes(h, "saveStatus")
                  THEN \E g \in BagToSet(reqs') :
                         /\ g.pc = "saveStatus" /\ g.id = h.id
                         /\ g.doc.paymentStatus = reported
                  ELSE /\ resp'.by = "verify" /\ resp'.code = 200
                       /\ resp'.mswipeStatus = reported]_vars

\* A verification was told code 2 by the processor and answers PENDING for a
\* donation still PENDING.
C31_PendingReported ==
  /\ resp.by = "verify" /\ resp.code = 200 /\ resp.id # NoId
  /\ resp.mswipeStatus = "PENDING"
  /\ db[resp.id].paymentStatus = "PENDING"

\* C32: when the status call of a verifyTransaction fails (the request
\* throws, the Status flag is not true, or no transaction data comes back),
\* the request is answered 500; no donation changes, no email is sent and no
\* save follows.
C32_StatusFailureIs500 ==
  [][\A h \in Handlers :
       (h.pc = "checkStatus" /\ Leaves(h)) =>
         \A a \in StatusAnswers :
           (a.kind \in {"threw", "statusFalse", "noData"}
            /\ VerifyStatusWith(h, checkTransactionStatus(a))) =>
             /\ resp'.by = "verify" /\ resp'.code = 500 /\ resp'.id = h.id
             /\ db' = db /\ emails' = emails
             /\ emailOutcome' = "none"
             /\ ~Becomes(h, "saveStatus")]_vars

\* verifyTransaction answered 500 for a donation it found, still PENDING.
C32_FailureAnswered ==
  /\ resp.by = "verify" /\ resp.code = 500 /\ resp.id # NoId
  /\ db[resp.id].paymentStatus = "PENDING"
  /\ emailOutcome = "none"

\* C33: the legacy status of every stored donation is the mirror of its
\* paymentStatus: pending with PENDING, completed with SUCCESS, failed with
\* FAILED.
C33_LegacyStatusMirrors ==
  \A i \in Donations :
    db[i].status = CASE db[i].paymentStatus = "PENDING" -> "pending"
                     [] db[i].paymentStatus = "SUCCESS" -> "completed"
                     [] OTHER -> "failed"

\* C34: the save that ends an initiatePayment whose payment link was created
\* leaves in place what a handleCallback stored for the donation in the
\* meantime: the settled paymentStatus, mswipeTransactionRef and the callback
\* entry of mswipePaymentResponse.
C34_FinalSaveKeepsCallback ==
  [][\A h \in Handlers :
       (/\ h.pc = "saveLinked" /\ Leaves(h)
        /\ db[h.id].paymentStatus \in Settled
        /\ db[h.id].mswipePaymentResponse.callback)
         => /\ db'[h.id].paymentStatus = db[h.id].paymentStatus
            /\ db'[h.id].mswipeTransactionRef = db[h.id].mswipeTransactionRef
            /\ db'[h.id].mswipePaymentResponse.callback]_vars

\* The cache is empty, or holds the token of one answer of the token endpoint
\* with the expiry generateToken derives from that same answer.
FromOneResponse ==
  \/ cachedToken = undefined /\ tokenExpiry = 0
  \/ \E r \in AllTokenResponses, t \in 0..now :
       r.ok /\ cachedToken = Jwt(r) /\ tokenExpiry = ExpiryOf(r, t)

\* C35: with generateToken calls overlapping during a cache miss, cachedToken
\* and tokenExpiry always come from the same answer of the token endpoint,
\* and a call whose token request fails leaves both as they are.
C35_TokenAndExpiryTogether ==
  [][/\ FromOneResponse'
     /\ \A h \in Handlers :
          (h.pc = "token" /\ Leaves(h) /\ Becomes(h, "saveFailed")) =>
            cachedToken' = cachedToken /\ tokenExpiry' = tokenExpiry]_vars

\* Two calls found the cache stale and both asked; one has stored its token
\* and the other is still waiting for its answer.
C35_SecondCallWaiting ==
  /\ tokenRequests = 2
  /\ cachedToken # undefined
  /\ \E h \in Handlers : h.pc = "token"

\* Trivia handler h ends or moves on in this step.
QuizLeaves(h) == h \in QuizHandlers /\ CopiesIn(h, quizzes') < CopiesIn(h, quizzes)

C37_OnlyVerifiedSubmit ==
  [][/\ \A p \in PhoneInputs, answers \in AnswerSheets :
          (/\ QuizArrives
           /\ submitQuizWith(p, answers)
           /\ \E g \in BagToSet(quizzes') :
                g.pc = "saveQuiz" /\ CopiesIn(g, quizzes') > CopiesIn(g, quizzes))
            => p # NoId /\ attempts[p].registered /\ attempts[p].isVerified
     /\ \A h \in QuizHandlers :
          /\ (h.pc = "saveQuiz" /\ QuizLeaves(h)) =>
               attempts[h.phone].registered /\ attempts[h.phone].isVerified
          /\ (h.pc = "verifyOTP" /\ QuizLeaves(h)) =>
               \A success \in BOOLEAN :
                 (~success /\ OtpVerifiedWith(h, success)) =>
                   /\ resp'.by = "verifyOTP" /\ resp'.code = 400
                   /\ \A g \in BagToSet(quizzes') : g \in QuizHandlers
     /\ \A p \in Phones :
          /\ attempts[p].isVerified => attempts'[p].isVerified
          /\ (~attempts[p].isVerified /\ attempts'[p].isVerified) =>
               \E h \in QuizHandlers :
                 h.pc = "saveVerified" /\ h.phone = p /\ QuizLeaves(h)]_vars

\* A submission was accepted for a phone number verified by OTP, and is being
\* answered.
C37_VerifiedSubmitted ==
  /\ resp.by = "submitQuiz" /\ resp.code = 200 /\ resp.id # NoId
  /\ attempts[resp.id].isVerified
  /\ attempts[resp.id].hasAttempted

====
